---- MODULE Spec2Model ----
(***************************************************************************)
(* Layered API configuration of restish (cli/apiconfig.go): discovery of   *)
(* local config files, loading and deep-merging them into the registry,    *)
(* re-population of the registry from the global store, the duplicate-base *)
(* check, the lookup of an API by request URI, profile validation and the  *)
(* choice of the file a configuration is saved to; the link strategies of  *)
(* the link resolver; and, of openapi/openapi.go, the parameters, name,     *)
(* aliases and response sections openapiOperation compiles for an          *)
(* operation, getRequestInfo, getBasePath and loadAutoConfig.              *)
(*                                                                         *)
(* Strings the code inspects (base URIs, spec-file locations, file paths)  *)
(* are sequences of one-character strings, so that prefix tests and path   *)
(* joins are computed.  Strings that are only stored and compared (header  *)
(* values, certificate names, API and profile names) are TLA+ strings.     *)
(* A Go pointer or map that may be nil is a sequence of length 0 (nil) or  *)
(* 1 (the value).                                                          *)
(***************************************************************************)
EXTENDS Integers, Sequences, FiniteSets, TLC

VARIABLES
    pc,                 \* position of initAPIConfig
    gfile,              \* the global registry file apis.json
    fsFiles,            \* paths for which os.Stat succeeds
    rshConfig,          \* viper "rsh-config"
    localConfigPaths,   \* result of findAllLocalConfigs
    idx,                \* next entry of localConfigPaths to load
    loaded,             \* history: the files read so far, <<path, content>>
    configs,            \* the registry: name -> *APIConfig
    apis,               \* viper overrides of the global store (apis.Set)
    localConfigSources, \* name -> local files that contributed
    localConfigPath,    \* closest local config path
    panicked,           \* <<>> or <<base>> named by the fatal error
    mdest, msrc, mres, mcount,   \* one destination, one source, merges done
    found, prevFound,   \* results of the last two findAPI calls
    saved,              \* what the last Save or SaveWithPrompt wrote
    args, ret,          \* arguments and result of a function applied on its own
    resp,               \* the response ParseLinks works on
    resolver            \* the registered link strategies, the next to run

vars == <<pc, gfile, fsFiles, rshConfig, localConfigPaths, idx, loaded,
          configs, apis, localConfigSources, localConfigPath, panicked,
          mdest, msrc, mres, mcount, found, prevFound, saved, args, ret,
          resp, resolver>>

startupVars == <<pc, gfile, fsFiles, rshConfig, localConfigPaths, idx, loaded,
                 configs, apis, localConfigSources, localConfigPath, panicked>>
mergeVars == <<mdest, msrc, mres, mcount>>
lookupVars == <<found, prevFound>>
saveVars == <<saved>>
callVars == <<args, ret>>
linkVars == <<resp, resolver>>

(***************************************************************************)
(* Strings and paths                                                       *)
(***************************************************************************)
Range(s) == {s[i] : i \in 1..Len(s)}

Reverse(s) == [i \in 1..Len(s) |-> s[Len(s) + 1 - i]]

\* strings.HasPrefix
HasPrefix(s, prefix) ==
    /\ Len(prefix) <= Len(s)
    /\ SubSeq(s, 1, Len(prefix)) = prefix

\* the path elements between separators, empty elements dropped
RECURSIVE Elems(_)
Elems(s) ==
    IF s = <<>> THEN <<>>
    ELSE IF \A i \in 1..Len(s) : s[i] # "/" THEN <<s>>
    ELSE LET i == CHOOSE k \in 1..Len(s) :
                      s[k] = "/" /\ \A j \in 1..(k - 1) : s[j] # "/"
         IN  (IF i = 1 THEN <<>> ELSE <<SubSeq(s, 1, i - 1)>>)
                 \o Elems(SubSeq(s, i + 1, Len(s)))

\* one pass of filepath.Clean over the elements: "." dropped, ".." removes
\* the element before it, is dropped at the root and kept in a relative path
RECURSIVE CleanElems(_, _, _)
CleanElems(es, out, rooted) ==
    IF es = <<>> THEN out
    ELSE LET e == Head(es) IN
         IF e = <<".">> THEN CleanElems(Tail(es), out, rooted)
         ELSE IF e = <<".", ".">> THEN
             IF out # <<>> /\ out[Len(out)] # <<".", ".">>
             THEN CleanElems(Tail(es), SubSeq(out, 1, Len(out) - 1), rooted)
             ELSE IF rooted THEN CleanElems(Tail(es), out, rooted)
             ELSE CleanElems(Tail(es), Append(out, e), rooted)
         ELSE CleanElems(Tail(es), Append(out, e), rooted)

RECURSIVE JoinElems(_)
JoinElems(es) ==
    IF es = <<>> THEN <<>>
    ELSE IF Len(es) = 1 THEN es[1]
    ELSE es[1] \o <<"/">> \o JoinElems(Tail(es))

\* filepath.Clean
Clean(path) ==
    LET rooted == path # <<>> /\ path[1] = "/"
        body == JoinElems(CleanElems(Elems(path), <<>>, rooted))
        out == IF rooted THEN <<"/">> \o body ELSE body
    IN  IF out = <<>> THEN <<".">> ELSE out

\* filepath.Join of two elements
Join(a, b) ==
    IF a = <<>> /\ b = <<>> THEN <<>>
    ELSE IF a = <<>> THEN Clean(b)
    ELSE Clean(a \o <<"/">> \o b)

\* filepath.Dir
Dir(path) ==
    LET slashes == {i \in 1..Len(path) : path[i] = "/"}
        last == IF slashes = {} THEN 0
                ELSE CHOOSE i \in slashes : \A j \in slashes : j <= i
    IN  Clean(SubSeq(path, 1, last))

\* filepath.IsAbs
IsAbs(path) == HasPrefix(path, <<"/">>)

\* filepath.Rel of two absolute paths
Rel(basepath, targpath) ==
    LET b == Elems(Clean(basepath))
        t == Elems(Clean(targpath))
        same == {n \in 0..Len(b) : n <= Len(t) /\ SubSeq(b, 1, n) = SubSeq(t, 1, n)}
        common == CHOOSE n \in same : \A m \in same : m <= n
        ups == [i \in 1..(Len(b) - common) |-> <<".", ".">>]
        out == JoinElems(ups \o SubSeq(t, common + 1, Len(t)))
    IN  IF out = <<>> THEN <<".">> ELSE out

HTTPPrefix == <<"h", "t", "t", "p", ":", "/", "/">>
HTTPSPrefix == <<"h", "t", "t", "p", "s", ":", "/", "/">>

\* the URL test without the https:// case
IsURLNoHTTPS(specFile) == HasPrefix(specFile, HTTPPrefix)
\* the URL test of loadLocalConfig
IsURL(specFile) ==
    HasPrefix(specFile, HTTPPrefix) \/ HasPrefix(specFile, HTTPSPrefix)

(***************************************************************************)
(* Configuration values                                                    *)
(***************************************************************************)
Nil == <<>>
Ptr(v) == <<v>>
EmptyMap == [k \in {} |-> ""]
NoStr == <<>>

\* keys of dest kept when source has them too
MergeMapKeepDest(dest, source) ==
    [k \in DOMAIN dest \cup DOMAIN source |->
        IF k \in DOMAIN dest THEN dest[k] ELSE source[k]]
\* assignment of every key of source into dest
MergeMap(dest, source) ==
    [k \in DOMAIN dest \cup DOMAIN source |->
        IF k \in DOMAIN source THEN source[k] ELSE dest[k]]

APIProfileZero == [Base |-> NoStr, Headers |-> EmptyMap, Query |-> EmptyMap, Auth |-> Nil]

deepMergeProfile(dest, source) ==
    [Base    |-> IF source.Base # NoStr THEN source.Base ELSE dest.Base,
     Headers |-> IF Cardinality(DOMAIN source.Headers) > 0
                 THEN MergeMap(dest.Headers, source.Headers) ELSE dest.Headers,
     Query   |-> IF Cardinality(DOMAIN source.Query) > 0
                 THEN MergeMap(dest.Query, source.Query) ELSE dest.Query,
     Auth    |-> IF source.Auth = Nil THEN dest.Auth
                 ELSE LET destParams == IF dest.Auth = Nil THEN EmptyMap
                                        ELSE dest.Auth[1].Params
                      IN  Ptr([Name   |-> source.Auth[1].Name,
                               Params |-> MergeMap(destParams, source.Auth[1].Params)])]

\* the append without the existingSpecs test
MergeSpecFilesNoCheck(dest, source) == dest \o source
\* the spec-file part of deepMergeAPIConfig
MergeSpecFiles(dest, source) ==
    IF Len(source) > 0
    THEN dest \o SelectSeq(source, LAMBDA spec : spec \notin Range(dest))
    ELSE dest

\* the profile part of deepMergeAPIConfig
MergeProfiles(dest, source) ==
    IF source = Nil \/ DOMAIN source[1] = {} THEN dest
    ELSE LET d == IF dest = Nil THEN EmptyMap ELSE dest[1]
             s == source[1]
             touched == {p \in DOMAIN s : s[p] # Nil}
         IN  Ptr([p \in DOMAIN d \cup touched |->
                    IF p \in touched
                    THEN Ptr(deepMergeProfile(
                             IF p \in DOMAIN d /\ d[p] # Nil THEN d[p][1]
                             ELSE APIProfileZero,
                             s[p][1]))
                    ELSE d[p]])

TLSZero == [InsecureSkipVerify |-> FALSE, Cert |-> "", Key |-> "", CACert |-> "", PKCS11 |-> Nil]
PKCS11Zero == [Path |-> "", Label |-> ""]

\* the TLS part of deepMergeAPIConfig
MergeTLS(dest, source) ==
    IF source = Nil THEN dest
    ELSE LET d == IF dest = Nil THEN TLSZero ELSE dest[1]
             s == source[1]
         IN  Ptr([InsecureSkipVerify |-> IF s.InsecureSkipVerify THEN TRUE
                                         ELSE d.InsecureSkipVerify,
                  Cert   |-> IF s.Cert # "" THEN s.Cert ELSE d.Cert,
                  Key    |-> IF s.Key # "" THEN s.Key ELSE d.Key,
                  CACert |-> IF s.CACert # "" THEN s.CACert ELSE d.CACert,
                  PKCS11 |-> IF s.PKCS11 = Nil THEN d.PKCS11
                             ELSE LET dp == IF d.PKCS11 = Nil THEN PKCS11Zero
                                            ELSE d.PKCS11[1]
                                      sp == s.PKCS11[1]
                                  IN  Ptr([Path  |-> IF sp.Path # "" THEN sp.Path ELSE dp.Path,
                                           Label |-> IF sp.Label # "" THEN sp.Label
                                                     ELSE dp.Label])])

\* the earlier layer kept when it is set
MergeBaseKeep(dest, source) == IF dest # NoStr THEN dest ELSE source
\* a scalar string of the later layer overwrites unless it is empty
MergeBase(dest, source) == IF source # NoStr THEN source ELSE dest

deepMergeAPIConfig(dest, source) ==
    [name          |-> dest.name,
     Base          |-> MergeBase(dest.Base, source.Base),
     OperationBase |-> MergeBase(dest.OperationBase, source.OperationBase),
     SpecFiles     |-> MergeSpecFiles(dest.SpecFiles, source.SpecFiles),
     Profiles      |-> MergeProfiles(dest.Profiles, source.Profiles),
     TLS           |-> MergeTLS(dest.TLS, source.TLS)]

(***************************************************************************)
(* Inputs: the directory tree, the files and what they hold                *)
(***************************************************************************)
MaxDepth == 2

DirNames == <<"a", "b", "c", "d", "e">>

RestishJSON == <<".", "r", "e", "s", "t", "i", "s", "h", ".", "j", "s", "o", "n">>
RestishYAML == <<".", "r", "e", "s", "t", "i", "s", "h", ".", "y", "a", "m", "l">>

\* the directory d levels below the root; the working directory is the deepest
RECURSIVE DirAt(_)
DirAt(d) == IF d = 0 THEN <<"/">> ELSE Join(DirAt(d - 1), <<DirNames[d]>>)
Cwd == DirAt(MaxDepth)

TreeFiles == UNION {{Join(DirAt(d), RestishJSON), Join(DirAt(d), RestishYAML)} : d \in 0..MaxDepth}
OverridePath == <<"/", "o", "/", "c">>

\* bases
BaseA == <<"/", "a">>
BaseAB == <<"/", "a", "/", "b">>
BaseC == <<"/", "c">>
BaseG == <<"/", "g">>
BaseP == <<"/", "p">>

\* spec-file locations as written in a config file
SpecRel == <<"s">>
SpecDotRel == <<".", "/", "s">>
SpecUpRel == <<".", ".", "/", "s">>
SpecAbs == <<"/", "s">>
SpecHTTP == HTTPPrefix \o <<"s">>
SpecHTTPS == HTTPSPrefix \o <<"s">>
SpecHTTPLike == <<"h", "t", "t", "p">>

Profile(base, headers, query, auth) ==
    Ptr([Base |-> base, Headers |-> headers, Query |-> query, Auth |-> auth])

Config(base, opbase, specs, profiles, tls) ==
    Ptr([name |-> "", Base |-> base, OperationBase |-> opbase, SpecFiles |-> specs,
         Profiles |-> profiles, TLS |-> tls])

TLSOf(insecure, cert) ==
    Ptr([InsecureSkipVerify |-> insecure, Cert |-> cert, Key |-> "", CACert |-> "",
         PKCS11 |-> Nil])

\* what a local config file can hold: ok is whether viper can read and parse
\* it, apis maps each top-level key to its value, Nil for a value that is not
\* an API configuration (as the string under "$schema")
LocalFileContents == <<
    [ok |-> TRUE,
     apis |-> [k \in {"$schema", "foo"} |->
        IF k = "$schema" THEN Nil
        ELSE Config(BaseA, NoStr, <<SpecRel, SpecAbs, SpecHTTP>>,
                    Ptr([p \in {"default"} |->
                        Profile(NoStr, [h \in {"a"} |-> "1"], EmptyMap, Nil)]),
                    Nil)]],
    [ok |-> TRUE,
     apis |-> [k \in {"foo"} |->
        Config(BaseAB, NoStr, <<SpecDotRel, SpecHTTPS, SpecUpRel, SpecHTTPLike>>,
               Ptr([p \in {"default", "prod"} |->
                   IF p = "default"
                   THEN Profile(NoStr, [h \in {"a", "b"} |-> "2"], [q \in {"q"} |-> "2"],
                                Ptr([Name |-> "basic", Params |-> [u \in {"user"} |-> "me"]]))
                   ELSE Profile(BaseP, [h \in {"a"} |-> "5"], EmptyMap, Nil)]),
               TLSOf(TRUE, "crt"))]],
    [ok |-> TRUE,
     apis |-> [k \in {"foo", "bar", "qux"} |->
        IF k = "foo"
        THEN Config(NoStr, BaseC, <<SpecAbs, SpecRel, SpecDotRel>>, Nil, TLSOf(FALSE, "key"))
        ELSE IF k = "bar"
        THEN Config(BaseA, NoStr, <<SpecRel, SpecRel>>, Nil, Nil)
        ELSE Nil]],
    [ok |-> FALSE, apis |-> EmptyMap]
>>

\* what the global registry file can hold; exists is whether apis.json is there
GlobalFiles == {
    [exists |-> FALSE, ok |-> TRUE, apis |-> EmptyMap],
    [exists |-> TRUE, ok |-> FALSE, apis |-> EmptyMap],
    [exists |-> TRUE, ok |-> TRUE,
     apis |-> [k \in {"$schema", "foo", "baz"} |->
        IF k = "$schema" THEN Nil
        ELSE IF k = "foo"
        THEN Config(BaseG, NoStr, <<SpecAbs>>,
                    Ptr([p \in {"default"} |->
                        Profile(NoStr, [h \in {"a", "g"} |-> "0"], EmptyMap, Nil)]),
                    Nil)
        ELSE Config(BaseAB, NoStr, <<>>, Nil, Nil)]],
    [exists |-> TRUE, ok |-> TRUE, apis |-> [k \in {"baz"} |-> Nil]]
}

(***************************************************************************)
(* Startup: initAPIConfig                                                  *)
(***************************************************************************)
Stat(path) == path \in fsFiles

\* the walk with the two candidates tested in the other order
RECURSIVE WalkUpYAMLFirst(_)
WalkUpYAMLFirst(dir) ==
    LET json == Join(dir, RestishJSON)
        yaml == Join(dir, RestishYAML)
        here == IF Stat(yaml) THEN <<yaml>>
                ELSE IF Stat(json) THEN <<json>>
                ELSE <<>>
        parent == Dir(dir)
    IN  IF parent = dir THEN here ELSE here \o WalkUpYAMLFirst(parent)

\* the walk of findAllLocalConfigs from dir up to the root, closest first
RECURSIVE WalkUp(_)
WalkUp(dir) ==
    LET json == Join(dir, RestishJSON)
        yaml == Join(dir, RestishYAML)
        here == IF Stat(json) THEN <<json>>
                ELSE IF Stat(yaml) THEN <<yaml>>
                ELSE <<>>
        parent == Dir(dir)
    IN  IF parent = dir THEN here ELSE here \o WalkUp(parent)

\* the override returned without the os.Stat test
findAllLocalConfigsNoStat ==
    IF rshConfig # NoStr THEN <<rshConfig>>
    ELSE Reverse(WalkUp(Cwd))
\* findAllLocalConfigs
findAllLocalConfigs ==
    IF rshConfig # NoStr /\ Stat(rshConfig) THEN <<rshConfig>>
    ELSE Reverse(WalkUp(Cwd))

\* the spec-file loop of loadLocalConfig
ResolveSpecFile(configDir, specFile) ==
    IF IsURL(specFile) THEN specFile
    ELSE IF ~IsAbs(specFile) THEN Join(configDir, specFile)
    ELSE specFile

ResolveSpecFiles(configDir, specFiles) ==
    [i \in 1..Len(specFiles) |-> ResolveSpecFile(configDir, specFiles[i])]

\* the APIConfig loadLocalConfig builds for key k of the file at configPath
LocalConfigOf(configPath, k, entry) ==
    [entry EXCEPT !.name = k,
                  !.SpecFiles = ResolveSpecFiles(Dir(configPath), @)]

\* the keys of a file that loadLocalConfig merges
MergedKeys(content) ==
    {k \in DOMAIN content.apis : k # "$schema" /\ content.apis[k] # Nil}

StartupInit ==
    /\ pc = "start"
    /\ gfile \in GlobalFiles
    /\ fsFiles \in SUBSET (TreeFiles \cup {OverridePath})
    /\ rshConfig \in {NoStr, OverridePath}
    \* whether the override file exists matters only when the flag names it
    /\ rshConfig = NoStr => OverridePath \notin fsFiles
    /\ localConfigPaths = <<>>
    /\ idx = 1
    /\ loaded = <<>>
    /\ configs = EmptyMap
    /\ apis = EmptyMap
    /\ localConfigSources = EmptyMap
    /\ localConfigPath = NoStr
    /\ panicked = Nil

\* apis.json after os.WriteFile(filename, "{}") for a file that is absent
WrittenBlank(file) ==
    IF file.exists THEN file ELSE [exists |-> TRUE, ok |-> TRUE, apis |-> EmptyMap]
\* apis.json after apis.Set("$schema", ...) and apis.WriteConfig() for a file
\* read without the key: the settings read and the key are written back
WithSchema(file) ==
    IF "$schema" \in DOMAIN file.apis THEN file
    ELSE [file EXCEPT !.apis = [k \in DOMAIN file.apis \cup {"$schema"} |->
                                   IF k = "$schema" THEN Nil ELSE file.apis[k]]]

\* initAPIConfig up to the discovery of the local files: the global store is
\* written empty when absent, read, written back with the key "$schema" when
\* it has none, and the registry is emptied
ReadGlobal ==
    /\ pc = "start"
    /\ IF ~WrittenBlank(gfile).ok
       THEN /\ pc' = "panic"
            /\ panicked' = Ptr([why |-> "read", base |-> NoStr])
            /\ gfile' = WrittenBlank(gfile)
            /\ UNCHANGED <<localConfigPaths, configs>>
       ELSE /\ pc' = "load"
            /\ panicked' = panicked
            /\ gfile' = WithSchema(WrittenBlank(gfile))
            /\ localConfigPaths' = findAllLocalConfigs
            /\ configs' = EmptyMap
    /\ UNCHANGED <<fsFiles, rshConfig, idx, loaded, apis,
                   localConfigSources, localConfigPath, mergeVars, lookupVars, saveVars, callVars, linkVars>>

\* one iteration of the loop over localConfigPaths: loadLocalConfig reads the
\* file, whose content the environment decides, and merges every entry
LoadLocal ==
    /\ pc = "load"
    /\ idx <= Len(localConfigPaths)
    /\ \E c \in 1..Len(LocalFileContents) :
        LET configPath == localConfigPaths[idx]
            content == LocalFileContents[c]
            keys == IF content.ok THEN MergedKeys(content) ELSE {}
            localConfig(k) == LocalConfigOf(configPath, k, content.apis[k][1])
            merged(k) == IF k \in DOMAIN configs
                         THEN deepMergeAPIConfig(configs[k], localConfig(k))
                         ELSE localConfig(k)
        IN  /\ loaded' = Append(loaded, <<configPath, c>>)
            /\ configs' = [k \in DOMAIN configs \cup keys |->
                              IF k \in keys THEN merged(k) ELSE configs[k]]
            /\ apis' = [k \in DOMAIN apis \cup keys |->
                          IF k \notin keys THEN apis[k]
                          ELSE IF k \notin DOMAIN apis
                          THEN [cfg |-> localConfig(k),
                                sharesProfiles |-> localConfig(k).Profiles # Nil,
                                sharesTLS |-> localConfig(k).TLS # Nil]
                          ELSE [apis[k] EXCEPT
                                  !.cfg.Profiles = IF apis[k].sharesProfiles
                                                   THEN merged(k).Profiles ELSE @,
                                  !.cfg.TLS = IF apis[k].sharesTLS
                                              THEN merged(k).TLS ELSE @]]
            /\ localConfigSources' =
                   [k \in DOMAIN localConfigSources \cup keys |->
                       IF k \in keys
                       THEN Append(IF k \in DOMAIN localConfigSources
                                   THEN localConfigSources[k] ELSE <<>>, configPath)
                       ELSE localConfigSources[k]]
    /\ idx' = idx + 1
    /\ UNCHANGED <<pc, gfile, fsFiles, rshConfig, localConfigPaths,
                   localConfigPath, panicked, mergeVars, lookupVars, saveVars, callVars, linkVars>>

\* the settings tmp.Unmarshal decodes: a key set by apis.Set shadows the
\* whole entry of the global file
AllSettingsOf(stored, overrides) ==
    [k \in (DOMAIN stored \ {"$schema"}) \cup DOMAIN overrides |->
        IF k \in DOMAIN overrides THEN Ptr(overrides[k].cfg) ELSE stored[k]]
AllSettings == AllSettingsOf(gfile.apis, apis)

\* the check with seen never filled
SeenBeforeNever(order, cs, i) == FALSE
\* seen[config.Base] when the loop over the registry reaches place i of the
\* order it visits the names in
SeenBefore(order, cs, i) ==
    \E j \in 1..(i - 1) : cs[order[j]].Base = cs[order[i]].Base

\* the orders a range over the registry can visit its names in
VisitOrders(cs) ==
    {f \in [1..Cardinality(DOMAIN cs) -> DOMAIN cs] :
        \A i, j \in 1..Cardinality(DOMAIN cs) : i # j => f[i] # f[j]}

\* the registry once the loop has set the name of the entries visited
Named(cs, visited) ==
    [k \in DOMAIN cs |-> IF k \in visited THEN [cs[k] EXCEPT !.name = k] ELSE cs[k]]

\* the registry after tmp.Unmarshal(&configs): every setting that is an API
\* configuration is decoded into a new entry of the map, an entry decoded
\* from the global file without name; a setting that is none is left out
\* and makes the call return an error
Unmarshalled(cs, settings) ==
    LET good == {k \in DOMAIN settings : settings[k] # Nil}
    IN  [k \in DOMAIN cs \cup good |-> IF k \in good THEN settings[k][1] ELSE cs[k]]

\* the end of the loop over the local files and the rest of initAPIConfig:
\* the registry is decoded from the global store, then its entries are
\* visited in the order of the map, each named unless its base was seen
Register ==
    /\ pc = "load"
    /\ idx > Len(localConfigPaths)
    /\ localConfigPath' = IF Len(localConfigPaths) > 0
                          THEN localConfigPaths[Len(localConfigPaths)]
                          ELSE localConfigPath
    /\ LET decoded == Unmarshalled(configs, AllSettings)
       IN  IF \E k \in DOMAIN AllSettings : AllSettings[k] = Nil
           THEN /\ pc' = "panic"
                /\ panicked' = Ptr([why |-> "unmarshal", base |-> NoStr])
                /\ configs' = decoded
           ELSE \E order \in VisitOrders(decoded) :
                LET dups == {i \in 1..Len(order) : SeenBefore(order, decoded, i)}
                    first == CHOOSE i \in dups : \A j \in dups : i <= j
                IN  IF dups # {}
                    THEN /\ pc' = "panic"
                         /\ panicked' = Ptr([why |-> "duplicate",
                                             base |-> decoded[order[first]].Base])
                         /\ configs' = Named(decoded, {order[j] : j \in 1..(first - 1)})
                    ELSE /\ pc' = "done"
                         /\ panicked' = panicked
                         /\ configs' = Named(decoded, DOMAIN decoded)
    /\ UNCHANGED <<gfile, fsFiles, rshConfig, localConfigPaths, idx, loaded,
                   apis, localConfigSources, mergeVars, lookupVars, saveVars, callVars, linkVars>>

Next == ReadGlobal \/ LoadLocal \/ Register

(***************************************************************************)
(* deepMergeAPIConfig on its own: one destination, one source, applied     *)
(* MaxMerges times                                                         *)
(***************************************************************************)
MaxMerges == 2

SpecX == <<"/", "x">>
SpecY == <<"/", "y">>

MergeProfileSets == {
    Nil,
    Ptr([p \in {"default"} |-> Profile(NoStr, [h \in {"a"} |-> "1"], EmptyMap, Nil)]),
    Ptr([p \in {"default", "prod"} |->
        IF p = "default"
        THEN Profile(BaseP, [h \in {"a", "b"} |-> "2"], [q \in {"q"} |-> "2"],
                     Ptr([Name |-> "basic", Params |-> [u \in {"user"} |-> "me"]]))
        ELSE Nil]),
    Ptr([p \in {"prod"} |->
        Profile(NoStr, EmptyMap, [q \in {"q", "r"} |-> "3"],
                Ptr([Name |-> "oauth", Params |-> EmptyMap]))])
}

MergeTLSSets == {
    Nil,
    TLSOf(TRUE, ""),
    Ptr([InsecureSkipVerify |-> FALSE, Cert |-> "crt", Key |-> "key", CACert |-> "ca",
         PKCS11 |-> Ptr([Path |-> "lib", Label |-> ""])])
}

MergeCfgs ==
    {[name |-> "foo", Base |-> b, OperationBase |-> o, SpecFiles |-> f,
      Profiles |-> p, TLS |-> t] :
        b \in {NoStr, BaseA, BaseAB}, o \in {NoStr, BaseC},
        f \in {<<>>, <<SpecX>>, <<SpecX, SpecY>>, <<SpecY, SpecY>>},
        p \in MergeProfileSets, t \in MergeTLSSets}

Idle ==
    /\ pc = "idle"
    /\ gfile = [exists |-> FALSE, ok |-> TRUE, apis |-> EmptyMap]
    /\ fsFiles = {}
    /\ rshConfig = NoStr
    /\ localConfigPaths = <<>>
    /\ idx = 1
    /\ loaded = <<>>
    /\ apis = EmptyMap
    /\ localConfigSources = EmptyMap
    /\ localConfigPath = NoStr
    /\ panicked = Nil
    /\ saved = Nil

NoResponse ==
    /\ resp = Nil
    /\ resolver = Nil

MergeInit ==
    /\ NoResponse
    /\ Idle
    /\ configs = EmptyMap
    /\ mdest \in MergeCfgs
    /\ msrc \in MergeCfgs
    /\ mres = mdest
    /\ mcount = 0
    /\ found = Nil /\ prevFound = Nil
    /\ args = Nil /\ ret = Nil

\* deepMergeAPIConfig(dest, source), dest being the result so far
DeepMerge ==
    /\ mcount < MaxMerges
    /\ mres' = deepMergeAPIConfig(mres, msrc)
    /\ mcount' = mcount + 1
    /\ UNCHANGED <<mdest, msrc, startupVars, lookupVars, saveVars, callVars, linkVars>>

MergeNext == DeepMerge

SpecMerge == MergeInit /\ [][MergeNext]_vars

(***************************************************************************)
(* Lookup: findAPI on a registry startup can leave behind                  *)
(***************************************************************************)
LookupCfgs == {
    [name |-> "", Base |-> BaseA, OperationBase |-> NoStr, SpecFiles |-> <<>>,
     Profiles |-> Nil, TLS |-> Nil],
    [name |-> "", Base |-> BaseAB, OperationBase |-> NoStr, SpecFiles |-> <<>>,
     Profiles |-> Ptr([p \in {"prod"} |-> Profile(BaseP, EmptyMap, EmptyMap, Nil)]),
     TLS |-> Nil],
    [name |-> "", Base |-> BaseC, OperationBase |-> NoStr, SpecFiles |-> <<>>,
     Profiles |-> Ptr([p \in {"default", "prod", "staging"} |->
                    IF p = "default" THEN Profile(BaseG, EmptyMap, EmptyMap, Nil)
                    ELSE IF p = "prod" THEN Profile(NoStr, EmptyMap, EmptyMap, Nil)
                    ELSE Nil]),
     TLS |-> Nil]
}

LookupNames == {"foo", "bar"}

\* registries as initAPIConfig leaves them: names set, bases pairwise distinct
Registries ==
    {r \in UNION {[S -> LookupCfgs] : S \in SUBSET LookupNames} :
        \A j, k \in DOMAIN r : j # k => r[j].Base # r[k].Base}

LookupURIs == {BaseAB \o <<"/", "x">>, BaseA \o <<"x">>, BaseP \o <<"/", "x">>,
               BaseG, BaseC \o <<"/">>, <<"/", "z">>}
LookupAPINames == {"", "foo", "bar"}
LookupProfiles == {"default", "prod", "staging"}

\* the orders in which a range over a Go map can visit the keys
Orders(S) == {o \in [1..Cardinality(S) -> S] : \A i, j \in DOMAIN o : i # j => o[i] # o[j]}

\* the candidate test with the profile left out
CandidateMatchesIgnoreProfile(name, config, uri, apiName, profile) ==
    /\ (apiName # "" => name = apiName)
    /\ HasPrefix(uri, config.Base)
\* the body of the loop of findAPI: whether this candidate is returned
CandidateMatches(name, config, uri, apiName, profile) ==
    /\ (apiName # "" => name = apiName)
    /\ IF profile # "default"
       THEN /\ config.Profiles # Nil
            /\ profile \in DOMAIN config.Profiles[1]
            /\ config.Profiles[1][profile] # Nil
            /\ IF config.Profiles[1][profile][1].Base # NoStr
               THEN HasPrefix(uri, config.Profiles[1][profile][1].Base)
               ELSE HasPrefix(uri, config.Base)
       ELSE HasPrefix(uri, config.Base)

\* findAPI when the range over configs visits the names in this order
findAPI(uri, apiName, profile, order) ==
    LET hits == {i \in DOMAIN order :
                    CandidateMatches(order[i], configs[order[i]], uri, apiName, profile)}
    IN  IF hits = {} THEN ""
        ELSE order[CHOOSE i \in hits : \A j \in hits : i <= j]

LookupInit ==
    /\ NoResponse
    /\ Idle
    /\ \E r \in Registries : configs = [k \in DOMAIN r |-> [r[k] EXCEPT !.name = k]]
    /\ mdest = Nil /\ msrc = Nil /\ mres = Nil /\ mcount = 0
    /\ found = Nil /\ prevFound = Nil
    /\ args = Nil /\ ret = Nil

FindAPI ==
    /\ \E uri \in LookupURIs, apiName \in LookupAPINames, profile \in LookupProfiles,
          order \in Orders(DOMAIN configs) :
        /\ found' = Ptr([uri |-> uri, apiName |-> apiName, profile |-> profile,
                         name |-> findAPI(uri, apiName, profile, order)])
        /\ prevFound' = found
    /\ UNCHANGED <<startupVars, mergeVars, saveVars, callVars, linkVars>>

LookupNext == FindAPI

SpecLookup == LookupInit /\ [][LookupNext]_vars

(***************************************************************************)
(* Saving an API configuration after startup                               *)
(***************************************************************************)
\* the global registry as a target of a write
GlobalStore == <<"apis.json">>
GlobalConfigOption == <<"G", "l", "o", "b", "a", "l", " ", "c", "o", "n", "f", "i", "g">>
\* an answer of the asker that is none of the options
OtherAnswer == <<"?">>

\* an API that is not in the registry yet
NewAPI == [name |-> "new", Base |-> BaseC, OperationBase |-> NoStr, SpecFiles |-> <<>>,
           Profiles |-> Nil, TLS |-> Nil]
Savable == {configs[k] : k \in DOMAIN configs} \cup {NewAPI}

SourcePathsOf(a) ==
    IF a.name \in DOMAIN localConfigSources THEN localConfigSources[a.name] ELSE <<>>

\* the default target taken as the first source
SaveTargetFirst(sourcePaths) == sourcePaths[1]
\* the default target of Save: the last source, the one closest to the
\* working directory
SaveTarget(sourcePaths) == sourcePaths[Len(sourcePaths)]

\* options of the prompt: the sources relative to the working directory,
\* then the global registry
PromptOptions(sourcePaths) ==
    [i \in 1..Len(sourcePaths) |-> Rel(Cwd, sourcePaths[i])] \o <<GlobalConfigOption>>

\* the file SaveWithPrompt writes for a choice that is not the global registry
ChosenPath(sourcePaths, options, choice) ==
    LET hits == {i \in 1..Len(sourcePaths) : options[i] = choice}
    IN  IF hits # {} THEN sourcePaths[CHOOSE i \in hits : \A j \in hits : i <= j]
        ELSE sourcePaths[Len(sourcePaths)]

\* apis.Set(a.name, a) followed by apis.WriteConfig()
WriteGlobal(a) ==
    LET set == [k \in DOMAIN apis \cup {a.name} |->
                   IF k = a.name
                   THEN [cfg |-> a, sharesProfiles |-> a.Profiles # Nil,
                         sharesTLS |-> a.TLS # Nil]
                   ELSE apis[k]]
        settings == AllSettingsOf(gfile.apis, set)
    IN  /\ apis' = set
        /\ gfile' = [exists |-> TRUE, ok |-> TRUE,
                     apis |-> [k \in DOMAIN settings \cup {"$schema"} |->
                                  IF k = "$schema" THEN Nil ELSE settings[k]]]
        /\ UNCHANGED fsFiles

\* saveToLocalConfig(configPath)
WriteLocal(configPath) ==
    /\ fsFiles' = fsFiles \cup {configPath}
    /\ UNCHANGED <<apis, gfile>>

\* APIConfig.Save
Save ==
    /\ pc = "done"
    /\ \E a \in Savable :
        LET sourcePaths == SourcePathsOf(a)
        IN  IF Len(sourcePaths) > 0
            THEN /\ WriteLocal(SaveTarget(sourcePaths))
                 /\ saved' = Ptr([op |-> "Save", api |-> a.name, prompted |-> FALSE,
                                  options |-> <<>>,
                                  written |-> {SaveTarget(sourcePaths)}])
            ELSE /\ WriteGlobal(a)
                 /\ saved' = Ptr([op |-> "Save", api |-> a.name, prompted |-> FALSE,
                                  options |-> <<>>, written |-> {GlobalStore}])
    /\ UNCHANGED <<pc, rshConfig, localConfigPaths, idx, loaded, configs,
                   localConfigSources, localConfigPath, panicked,
                   mergeVars, lookupVars, callVars, linkVars>>

\* APIConfig.SaveWithPrompt, the asker answering choice
SaveWithPrompt ==
    /\ pc = "done"
    /\ \E a \in Savable :
        LET sourcePaths == SourcePathsOf(a)
            options == PromptOptions(sourcePaths)
        IN  IF Len(sourcePaths) = 0
            THEN /\ WriteGlobal(a)
                 /\ saved' = Ptr([op |-> "SaveWithPrompt", api |-> a.name,
                                  prompted |-> FALSE, options |-> <<>>,
                                  written |-> {GlobalStore}])
            ELSE IF Len(sourcePaths) = 1
            THEN /\ WriteLocal(sourcePaths[1])
                 /\ saved' = Ptr([op |-> "SaveWithPrompt", api |-> a.name,
                                  prompted |-> FALSE, options |-> <<>>,
                                  written |-> {sourcePaths[1]}])
            ELSE \E choice \in Range(options) \cup {OtherAnswer} :
                 IF choice = GlobalConfigOption
                 THEN /\ WriteGlobal(a)
                      /\ saved' = Ptr([op |-> "SaveWithPrompt", api |-> a.name,
                                       prompted |-> TRUE, options |-> options,
                                       written |-> {GlobalStore}])
                 ELSE /\ WriteLocal(ChosenPath(sourcePaths, options, choice))
                      /\ saved' = Ptr([op |-> "SaveWithPrompt", api |-> a.name,
                                       prompted |-> TRUE, options |-> options,
                                       written |-> {ChosenPath(sourcePaths, options,
                                                               choice)}])
    /\ UNCHANGED <<pc, rshConfig, localConfigPaths, idx, loaded, configs,
                   localConfigSources, localConfigPath, panicked,
                   mergeVars, lookupVars, callVars, linkVars>>

\* startup with a readable global registry, followed by saves
SaveInit ==
    /\ NoResponse
    /\ StartupInit
    /\ gfile.ok /\ \A k \in DOMAIN gfile.apis : k = "$schema" \/ gfile.apis[k] # Nil
    \* which of the two candidates of a directory is found makes no difference
    \* to a save, nor does the tree when the override file is the one loaded
    /\ IF rshConfig = NoStr
       THEN fsFiles \subseteq {Join(DirAt(d), RestishJSON) : d \in 0..MaxDepth}
       ELSE fsFiles = {OverridePath}
    /\ saved = Nil
    /\ mdest = Nil /\ msrc = Nil /\ mres = Nil /\ mcount = 0
    /\ found = Nil /\ prevFound = Nil
    /\ args = Nil /\ ret = Nil

SaveNext == ReadGlobal \/ LoadLocal \/ Register \/ Save \/ SaveWithPrompt

SpecSave == SaveInit /\ [][SaveNext]_vars

(***************************************************************************)
(* validateProfile on its own.  The names it sorts and prints are          *)
(* sequences of characters, the error is the text fmt.Errorf builds        *)
(***************************************************************************)
\* the byte of each character the names are written with
ByteOf ==
    ("-" :> 45) @@ ("a" :> 97) @@ ("b" :> 98) @@ ("d" :> 100) @@ ("e" :>
    101) @@ ("f" :> 102) @@ ("g" :> 103) @@ ("i" :> 105) @@ ("l" :> 108)
    @@ ("n" :> 110) @@ ("o" :> 111) @@ ("p" :> 112) @@ ("r" :> 114) @@
    ("s" :> 115) @@ ("t" :> 116) @@ ("u" :> 117) @@ ("v" :> 118)
    @@ ("0" :> 48) @@ ("1" :> 49) @@ ("2" :> 50) @@ ("4" :> 52)

\* a < b for Go strings: bytewise, a proper prefix first
RECURSIVE LessStr(_, _)
LessStr(a, b) ==
    IF b = <<>> THEN FALSE
    ELSE IF a = <<>> THEN TRUE
    ELSE IF ByteOf[Head(a)] # ByteOf[Head(b)] THEN ByteOf[Head(a)] < ByteOf[Head(b)]
    ELSE LessStr(Tail(a), Tail(b))

\* the names in decreasing order
RECURSIVE SortStringsDescending(_)
SortStringsDescending(S) ==
    IF S = {} THEN <<>>
    ELSE LET m == CHOOSE x \in S : \A y \in S \ {x} : LessStr(y, x)
         IN  <<m>> \o SortStringsDescending(S \ {m})
\* sort.Strings on the names collected from a map
RECURSIVE SortStrings(_)
SortStrings(S) ==
    IF S = {} THEN <<>>
    ELSE LET m == CHOOSE x \in S : \A y \in S \ {x} : LessStr(x, y)
         IN  <<m>> \o SortStrings(S \ {m})

\* strings.Join
RECURSIVE StringsJoin(_, _)
StringsJoin(elems, sep) ==
    IF elems = <<>> THEN <<>>
    ELSE IF Len(elems) = 1 THEN elems[1]
    ELSE elems[1] \o sep \o StringsJoin(Tail(elems), sep)

DefaultName == <<"d", "e", "f", "a", "u", "l", "t">>
MsgProfile == <<"p", "r", "o", "f", "i", "l", "e", " ", "'">>
MsgNotFound == <<"'", " ", "n", "o", "t", " ", "f", "o", "u", "n", "d", " ", "f", "o", "r", " ", "A", "P", "I", " ", "'">>
MsgNoProfiles == <<"'", " ", "(", "n", "o", " ", "p", "r", "o", "f", "i", "l", "e", "s", " ", "d", "e", "f", "i", "n", "e", "d", ")">>
MsgAvailable == <<"'", ".", " ", "A", "v", "a", "i", "l", "a", "b", "l", "e", " ", "p", "r", "o", "f", "i", "l", "e", "s", ":", " ">>
MsgSep == <<",", " ">>

\* config.Profiles[profileName] != nil
ProfileDefined(config, profileName) ==
    /\ config.Profiles # Nil
    /\ profileName \in DOMAIN config.Profiles[1]
    /\ config.Profiles[1][profileName] # Nil

\* validateProfile: Nil, or the text of the error
validateProfile(profileName, config, configName) ==
    IF profileName = DefaultName /\ ~ProfileDefined(config, profileName) THEN Nil
    ELSE IF ProfileDefined(config, profileName) THEN Nil
    ELSE LET available == SortStrings(IF config.Profiles = Nil THEN {}
                                      ELSE DOMAIN config.Profiles[1])
         IN  IF Len(available) = 0
             THEN Ptr(MsgProfile \o profileName \o MsgNotFound \o configName
                      \o MsgNoProfiles)
             ELSE Ptr(MsgProfile \o profileName \o MsgNotFound \o configName
                      \o MsgAvailable \o StringsJoin(available, MsgSep))

DeclaredNames == {<<"d", "e", "f", "a", "u", "l", "t">>, <<"p", "r", "o", "d">>, <<"s", "t", "a", "g", "i", "n", "g">>, <<"p", "r", "o">>, <<"p", "r", "o", "d", "-", "e", "u">>}
RequestedNames == DeclaredNames \cup {<<"d", "e", "v">>}
ConfigNames == {<<"f", "o", "o">>, <<"b", "a", "r">>}

\* the configurations validateProfile is applied to: every set of declared
\* profiles, the nil map and the empty map
ProfileCfgs ==
    {[name |-> "", Base |-> BaseA, OperationBase |-> NoStr, SpecFiles |-> <<>>,
      Profiles |-> p, TLS |-> Nil] :
        p \in {Nil} \cup {Ptr([n \in S |-> Profile(NoStr, EmptyMap, EmptyMap, Nil)]) :
                            S \in SUBSET DeclaredNames}}

ProfileInit ==
    /\ NoResponse
    /\ Idle
    /\ configs = EmptyMap
    /\ mdest = Nil /\ msrc = Nil /\ mres = Nil /\ mcount = 0
    /\ found = Nil /\ prevFound = Nil
    /\ \E n \in RequestedNames, c \in ProfileCfgs, a \in ConfigNames :
          args = Ptr([fn |-> "validateProfile", profileName |-> n, config |-> c,
                      configName |-> a])
    /\ ret = Nil

ValidateProfile ==
    /\ args # Nil /\ ret = Nil
    /\ args[1].fn = "validateProfile"
    /\ ret' = Ptr([err |-> validateProfile(args[1].profileName, args[1].config,
                                           args[1].configName)])
    /\ UNCHANGED <<args, startupVars, mergeVars, lookupVars, saveVars, linkVars>>

ProfileNext == ValidateProfile

SpecProfile == ProfileInit /\ [][ProfileNext]_vars

(***************************************************************************)
(* LinkResolver: the link strategies and ParseLinks.  Headers, relation    *)
(* names and URIs are sequences of characters.  A decoded body is a tagged *)
(* value; a mapping is the sequence of its <<key, value>> entries, a key   *)
(* being a string or a number                                              *)
(***************************************************************************)
VNull == [t |-> "null"]
VAbsent == [t |-> "absent"]
VStr(s) == [t |-> "str", v |-> s]
VNum(n) == [t |-> "num", v |-> n]
VSeq(elems) == [t |-> "seq", v |-> elems]
VMap(entries) == [t |-> "map", v |-> entries]

IsStr(x) == x.t = "str"
IsSeq(x) == x.t = "seq"
IsMap(x) == x.t = "map"

\* the value of a mapping under a string key, VAbsent without one
MapGet(m, key) ==
    LET hits == {i \in 1..Len(m.v) : IsStr(m.v[i][1]) /\ m.v[i][1].v = key}
    IN  IF hits = {} THEN VAbsent
        ELSE m.v[CHOOSE i \in hits : \A j \in hits : i <= j][2]

KeySelf == <<"s", "e", "l", "f">>
KeyHref == <<"h", "r", "e", "f">>
KeyHALLinks == <<"_", "l", "i", "n", "k", "s">>
KeyCuries == <<"c", "u", "r", "i", "e", "s">>
KeyLinks == <<"l", "i", "n", "k", "s">>
KeyRel == <<"r", "e", "l">>
KeyData == <<"d", "a", "t", "a">>
RelItem == <<"i", "t", "e", "m">>
ItemSuffix == <<"-", "i", "t", "e", "m">>

\* a link set: relation -> URIs in insertion order
NoLinks == <<>>
LinksOf(links, rel) == IF rel \in DOMAIN links THEN links[rel] ELSE <<>>
AddLink(links, rel, uri) ==
    [r \in DOMAIN links \cup {rel} |->
        IF r = rel THEN Append(LinksOf(links, rel), uri) ELSE links[r]]
\* the links of a sequence of <<rel, uri>> added in order
RECURSIVE AddLinks(_, _)
AddLinks(links, pairs) ==
    IF pairs = <<>> THEN links
    ELSE AddLinks(AddLink(links, pairs[1][1], pairs[1][2]), Tail(pairs))

\* the pieces of s between occurrences of the character c
RECURSIVE SplitOn(_, _)
SplitOn(s, c) ==
    IF \A i \in 1..Len(s) : s[i] # c THEN <<s>>
    ELSE LET i == CHOOSE k \in 1..Len(s) : s[k] = c /\ \A j \in 1..(k - 1) : s[j] # c
         IN  <<SubSeq(s, 1, i - 1)>> \o SplitOn(SubSeq(s, i + 1, Len(s)), c)

RECURSIVE TrimSpace(_)
TrimSpace(s) ==
    IF s = <<>> THEN s
    ELSE IF s[1] = " " THEN TrimSpace(Tail(s))
    ELSE IF s[Len(s)] = " " THEN TrimSpace(SubSeq(s, 1, Len(s) - 1))
    ELSE s

RelParam == <<"r", "e", "l", "=">>

\* one entry of a link header: Nil when it has no bracketed URI, else the
\* <<rel, uri>> it carries
ParseLinkEntry(entry) ==
    LET e == TrimSpace(entry)
        closing == {i \in 1..Len(e) : e[i] = ">"}
    IN  IF e = <<>> \/ e[1] # "<" \/ closing = {} THEN Nil
        ELSE LET close == CHOOSE i \in closing : \A j \in closing : i <= j
                 params == SplitOn(SubSeq(e, close + 1, Len(e)), ";")
                 rels == {i \in 1..Len(params) : HasPrefix(TrimSpace(params[i]), RelParam)}
                 quoted == IF rels = {} THEN <<>>
                           ELSE LET p == TrimSpace(params[CHOOSE i \in rels :
                                                        \A j \in rels : i <= j])
                                IN  SubSeq(p, Len(RelParam) + 1, Len(p))
                 rel == IF Len(quoted) >= 2 /\ quoted[1] = "\"" /\ quoted[Len(quoted)] = "\""
                        THEN SubSeq(quoted, 2, Len(quoted) - 1)
                        ELSE quoted
             IN  Ptr(<<rel, SubSeq(e, 2, close - 1)>>)

\* the header strategy accepting what it can of a header with a bad entry
LinkHeaderParserLenient(headers, body, links) ==
    IF headers = Nil THEN [links |-> links, err |-> FALSE]
    ELSE LET parsed == [i \in 1..Len(SplitOn(headers[1], ",")) |->
                           ParseLinkEntry(SplitOn(headers[1], ",")[i])]
             good == SelectSeq(parsed, LAMBDA p : p # Nil)
         IN  [links |-> AddLinks(links, [i \in 1..Len(good) |-> good[i][1]]),
              err |-> \E i \in 1..Len(parsed) : parsed[i] = Nil]
\* the header strategy: the Link header parsed whole, then its entries added
\* in header order
LinkHeaderParser(headers, body, links) ==
    IF headers = Nil THEN [links |-> links, err |-> FALSE]
    ELSE LET parsed == [i \in 1..Len(SplitOn(headers[1], ",")) |->
                           ParseLinkEntry(SplitOn(headers[1], ",")[i])]
         IN  IF \E i \in 1..Len(parsed) : parsed[i] = Nil
             THEN [links |-> links, err |-> TRUE]
             ELSE [links |-> AddLinks(links, [i \in 1..Len(parsed) |-> parsed[i][1]]),
                   err |-> FALSE]

RECURSIVE Flatten(_)
Flatten(seqs) == IF seqs = <<>> THEN <<>> ELSE Head(seqs) \o Flatten(Tail(seqs))

\* the href of a link object, Nil when the value is not a mapping with a
\* string href
HrefOf(val) ==
    IF IsMap(val) /\ IsStr(MapGet(val, KeyHref)) THEN Ptr(MapGet(val, KeyHref).v) ELSE Nil

\* the links of one relation of _links: an object or a list of objects
HALEntryPairs(rel, val) ==
    IF IsSeq(val)
    THEN Flatten([i \in 1..Len(val.v) |->
                    IF HrefOf(val.v[i]) # Nil THEN <<<<rel, HrefOf(val.v[i])[1]>>>> ELSE <<>>])
    ELSE IF HrefOf(val) # Nil THEN <<<<rel, HrefOf(val)[1]>>>> ELSE <<>>

\* one mapping with the curies relation taken like any other
HALOnePairsWithCuries(m) ==
    IF IsMap(m) /\ IsMap(MapGet(m, KeyHALLinks))
    THEN LET l == MapGet(m, KeyHALLinks).v
         IN  Flatten([i \in 1..Len(l) |->
                        IF IsStr(l[i][1]) THEN HALEntryPairs(l[i][1].v, l[i][2]) ELSE <<>>])
    ELSE <<>>
\* the links of one mapping with a _links member
HALOnePairs(m) ==
    IF IsMap(m) /\ IsMap(MapGet(m, KeyHALLinks))
    THEN LET l == MapGet(m, KeyHALLinks).v
         IN  Flatten([i \in 1..Len(l) |->
                        IF IsStr(l[i][1]) /\ l[i][1].v # KeyCuries
                        THEN HALEntryPairs(l[i][1].v, l[i][2])
                        ELSE <<>>])
    ELSE <<>>

\* the HAL strategy: a mapping, or each element of a sequence in turn
HALParser(headers, body, links) ==
    [links |-> AddLinks(links, IF IsSeq(body)
                               THEN Flatten([i \in 1..Len(body.v) |-> HALOnePairs(body.v[i])])
                               ELSE HALOnePairs(body)),
     err |-> FALSE]

\* the Siren strategy: every relation name of an entry maps to its href
SirenParser(headers, body, links) ==
    LET entries == IF IsMap(body) /\ IsSeq(MapGet(body, KeyLinks))
                   THEN MapGet(body, KeyLinks).v ELSE <<>>
        rels(e) == IF IsMap(e) /\ IsSeq(MapGet(e, KeyRel)) THEN MapGet(e, KeyRel).v ELSE <<>>
        pairs(e) == IF HrefOf(e) = Nil THEN <<>>
                    ELSE Flatten([j \in 1..Len(rels(e)) |->
                                    IF IsStr(rels(e)[j])
                                    THEN <<<<rels(e)[j].v, HrefOf(e)[1]>>>> ELSE <<>>])
    IN  [links |-> AddLinks(links, Flatten([i \in 1..Len(entries) |-> pairs(entries[i])])),
         err |-> FALSE]

\* links.self of a mapping: a string or a link object
LinksSelfOf(m) ==
    IF IsMap(m) /\ IsMap(MapGet(m, KeyLinks))
    THEN LET s == MapGet(MapGet(m, KeyLinks), KeySelf)
         IN  IF IsStr(s) THEN Ptr(s.v) ELSE HrefOf(s)
    ELSE Nil

\* the JSON:API strategy: the top-level links.self, then the links.self of
\* each element of data
JSONAPIParser(headers, body, links) ==
    LET data == IF IsMap(body) /\ IsSeq(MapGet(body, KeyData))
                THEN MapGet(body, KeyData).v ELSE <<>>
        top == IF LinksSelfOf(body) # Nil THEN <<<<KeySelf, LinksSelfOf(body)[1]>>>> ELSE <<>>
        items == Flatten([i \in 1..Len(data) |->
                            IF LinksSelfOf(data[i]) # Nil
                            THEN <<<<RelItem, LinksSelfOf(data[i])[1]>>>> ELSE <<>>])
    IN  [links |-> AddLinks(links, top \o items), err |-> FALSE]

Digits == <<"0", "1", "2", "3", "4", "5", "6", "7", "8", "9">>
\* a natural number in decimal
RECURSIVE IntToStr(_)
IntToStr(n) == IF n < 10 THEN <<Digits[n + 1]>>
               ELSE IntToStr(n \div 10) \o <<Digits[(n % 10) + 1]>>

\* a map key as a relation name
KeyString(k) == IF IsStr(k) THEN k.v ELSE IntToStr(k.v)

\* the walk with the elements of a collection kept under the key itself
RECURSIVE WalkPairsNoSuffix(_, _)
WalkPairsNoSuffix(key, value) ==
    IF IsMap(value)
    THEN (IF IsStr(MapGet(value, KeySelf)) THEN <<<<key, MapGet(value, KeySelf).v>>>> ELSE <<>>)
         \o Flatten([i \in 1..Len(value.v) |->
                       WalkPairsNoSuffix(KeyString(value.v[i][1]), value.v[i][2])])
    ELSE IF IsSeq(value)
    THEN Flatten([i \in 1..Len(value.v) |-> WalkPairsNoSuffix(key, value.v[i])])
    ELSE <<>>
\* the heuristic walk: the self-link of a mapping goes under the key that
\* leads to it, the elements of a collection under that key with "-item"
RECURSIVE WalkPairs(_, _)
WalkPairs(key, value) ==
    IF IsMap(value)
    THEN (IF IsStr(MapGet(value, KeySelf)) THEN <<<<key, MapGet(value, KeySelf).v>>>> ELSE <<>>)
         \o Flatten([i \in 1..Len(value.v) |->
                       WalkPairs(KeyString(value.v[i][1]), value.v[i][2])])
    ELSE IF IsSeq(value)
    THEN Flatten([i \in 1..Len(value.v) |-> WalkPairs(key \o ItemSuffix, value.v[i])])
    ELSE <<>>

\* the heuristic strategy
TerrificallySimpleJSONParser(headers, body, links) ==
    [links |-> AddLinks(links, IF IsMap(body) THEN WalkPairs(KeySelf, body) ELSE <<>>),
     err |-> FALSE]

\* a strategy that always fails
errorLinkParser(headers, body, links) == [links |-> links, err |-> TRUE]

\* the bodies a response can carry
LinkBodies == <<
    VNull,
    VMap(<<<<VStr(<<"_", "l", "i", "n", "k", "s">>), VMap(<<<<VStr(<<"c", "u",
    "r", "i", "e", "s">>), VNull>>, <<VStr(<<"s", "e", "l", "f">>),
    VMap(<<<<VStr(<<"h", "r", "e", "f">>), VStr(<<"/", "s", "e", "l",
    "f">>)>>>>)>>, <<VStr(<<"i", "t", "e", "m">>), VMap(<<<<VStr(<<"h", "r",
    "e", "f">>), VStr(<<"/", "i", "t", "e", "m">>)>>>>)>>>>)>>>>),
    VSeq(<<VMap(<<<<VStr(<<"_", "l", "i", "n", "k", "s">>),
    VMap(<<<<VStr(<<"s", "e", "l", "f">>), VMap(<<<<VStr(<<"h", "r", "e",
    "f">>), VStr(<<"/", "o", "n", "e">>)>>>>)>>>>)>>>>), VMap(<<<<VStr(<<"_",
    "l", "i", "n", "k", "s">>), VMap(<<<<VStr(<<"s", "e", "l", "f">>),
    VMap(<<<<VStr(<<"h", "r", "e", "f">>), VStr(<<"/", "t", "w",
    "o">>)>>>>)>>>>)>>>>)>>),
    VMap(<<<<VStr(<<"_", "l", "i", "n", "k", "s">>), VMap(<<<<VStr(<<"c", "u",
    "r", "i", "e", "s">>), VSeq(<<VMap(<<<<VStr(<<"h", "r", "e", "f">>),
    VStr(<<"/", "c">>)>>>>)>>)>>, <<VStr(<<"i", "t", "e", "m">>),
    VSeq(<<VMap(<<<<VStr(<<"h", "r", "e", "f">>), VStr(<<"/", "f", "o",
    "o">>)>>>>), VMap(<<<<VStr(<<"h", "r", "e", "f">>), VStr(<<"/", "b", "a",
    "r">>)>>>>)>>)>>, <<VStr(<<"s", "e", "l", "f">>), VMap(<<<<VStr(<<"h",
    "r", "e", "f">>), VStr(<<"/", "s", "e", "l", "f">>)>>>>)>>, <<VStr(<<"n",
    "e", "x", "t">>), VNull>>>>)>>>>),
    VMap(<<<<VStr(<<"s", "e", "l", "f">>), VStr(<<"/", "s", "e", "l",
    "f">>)>>, <<VStr(<<"t", "h", "i", "n", "g", "s">>),
    VSeq(<<VMap(<<<<VStr(<<"s", "e", "l", "f">>), VStr(<<"/", "f", "o",
    "o">>)>>, <<VStr(<<"n", "a", "m", "e">>), VStr(<<"F", "o", "o">>)>>>>),
    VMap(<<<<VStr(<<"s", "e", "l", "f">>), VStr(<<"/", "b", "a", "r">>)>>,
    <<VStr(<<"n", "a", "m", "e">>), VStr(<<"B", "a", "r">>)>>>>),
    VMap(<<<<VNum(5), VMap(<<<<VStr(<<"s", "e", "l", "f">>), VStr(<<"/", "w",
    "e", "i", "r", "d">>)>>>>)>>>>)>>)>>, <<VStr(<<"o", "t", "h", "e", "r">>),
    VMap(<<<<VStr(<<"s", "e", "l", "f">>), VMap(<<<<VStr(<<"f", "o", "o">>),
    VStr(<<"b", "a", "r">>)>>>>)>>>>)>>>>),
    VMap(<<<<VNum(7), VMap(<<<<VStr(<<"s", "e", "l", "f">>), VStr(<<"/", "s",
    "e", "v", "e", "n">>)>>>>)>>, <<VStr(<<"s", "e", "l", "f">>), VNum(12)>>,
    <<VStr(<<"l", "i", "s", "t">>), VSeq(<<VMap(<<<<VStr(<<"s", "e", "l",
    "f">>), VStr(<<"/", "l", "1">>)>>>>), VStr(<<"s", "t", "r">>),
    VSeq(<<VMap(<<<<VStr(<<"s", "e", "l", "f">>), VStr(<<"/", "d", "e", "e",
    "p">>)>>>>)>>)>>)>>>>),
    VMap(<<<<VStr(<<"l", "i", "n", "k", "s">>), VSeq(<<VMap(<<<<VStr(<<"r",
    "e", "l">>), VSeq(<<VStr(<<"s", "e", "l", "f">>)>>)>>, <<VStr(<<"h", "r",
    "e", "f">>), VStr(<<"/", "s", "e", "l", "f">>)>>>>), VMap(<<<<VStr(<<"r",
    "e", "l">>), VSeq(<<VStr(<<"o", "n", "e">>), VStr(<<"t", "w", "o">>)>>)>>,
    <<VStr(<<"h", "r", "e", "f">>), VStr(<<"/", "m", "u", "l", "t",
    "i">>)>>>>), VMap(<<<<VStr(<<"r", "e", "l">>), VSeq(<<VStr(<<"i", "n",
    "v", "a", "l", "i", "d">>)>>)>>>>)>>)>>>>),
    VMap(<<<<VStr(<<"l", "i", "n", "k", "s">>), VMap(<<<<VStr(<<"s", "e", "l",
    "f">>), VStr(<<"/", "s", "e", "l", "f">>)>>>>)>>, <<VStr(<<"d", "a", "t",
    "a">>), VSeq(<<VMap(<<<<VStr(<<"l", "i", "n", "k", "s">>),
    VMap(<<<<VStr(<<"s", "e", "l", "f">>), VMap(<<<<VStr(<<"h", "r", "e",
    "f">>), VStr(<<"/", "i", "t", "e", "m">>)>>>>)>>>>)>>>>)>>)>>>>)
>>

MaxEntries == 3

\* the entries a Link header is written from: a URI, its relation, and
\* whether the URI is written between brackets
HeaderEntryChoices == {
    [uri |-> <<"/", "s", "e", "l", "f">>, rel |-> <<"s", "e", "l", "f">>, bracketed |-> TRUE],
    [uri |-> <<"/", "f", "o", "o">>, rel |-> <<"i", "t", "e", "m">>, bracketed |-> TRUE],
    [uri |-> <<"/", "b", "a", "r">>, rel |-> <<"i", "t", "e", "m">>, bracketed |-> TRUE],
    [uri |-> <<"b", "a", "d">>, rel |-> <<"i", "t", "e", "m">>, bracketed |-> FALSE]
}
HeaderEntrySeqs == UNION {[1..n -> HeaderEntryChoices] : n \in 1..MaxEntries}

RenderEntry(e) ==
    (IF e.bracketed THEN <<"<">> \o e.uri \o <<">">> ELSE e.uri)
        \o <<";", " ", "r", "e", "l", "=", "\"">> \o e.rel \o <<"\"">>
RenderHeader(es) == StringsJoin([i \in 1..Len(es) |-> RenderEntry(es[i])], MsgSep)

BadHeader == <<"b", "a", "d", " ", "v", "a", "l", "u", "e">>

\* the Link header of a response: absent, written from entries, or free text
LinkHeaders == {Nil, Ptr(BadHeader)} \cup {Ptr(RenderHeader(es)) : es \in HeaderEntrySeqs}

DefaultParsers == <<"header", "hal", "siren", "jsonapi", "simple">>
\* the registered strategies: the defaults, and the failing one added at
\* any place among them
ParserLists ==
    {DefaultParsers} \cup
    {SubSeq(DefaultParsers, 1, n) \o <<"error">>
         \o SubSeq(DefaultParsers, n + 1, Len(DefaultParsers)) :
        n \in 0..Len(DefaultParsers)}

\* one strategy applied to a response
ApplyParser(name, headers, body, links) ==
    CASE name = "header" -> LinkHeaderParser(headers, body, links)
      [] name = "hal" -> HALParser(headers, body, links)
      [] name = "siren" -> SirenParser(headers, body, links)
      [] name = "jsonapi" -> JSONAPIParser(headers, body, links)
      [] name = "simple" -> TerrificallySimpleJSONParser(headers, body, links)
      [] name = "error" -> errorLinkParser(headers, body, links)

\* the strategies ParseLinks can run after the one at pos.  After a strategy
\* that returned an error the loop either goes on or is given up, count + 1
\* standing for the end: the description asks for the former, the test of the
\* failing strategy passes with both
NextParser(pos, failed, count) == IF failed THEN {pos + 1, count + 1} ELSE {pos + 1}
\* the errors ParseLinks can return once a strategy has returned an error or
\* none: one of those the strategies returned, each under the name of its
\* strategy
NextErr(err, name, failed) ==
    IF ~failed THEN {err} ELSE {Ptr(name)} \cup (IF err # Nil THEN {err} ELSE {})

LinksInit ==
    /\ Idle
    /\ configs = EmptyMap
    /\ mdest = Nil /\ msrc = Nil /\ mres = Nil /\ mcount = 0
    /\ found = Nil /\ prevFound = Nil
    /\ args = Nil /\ ret = Nil
    /\ \E h \in LinkHeaders, b \in 1..Len(LinkBodies) :
          resp = [Headers |-> h, Body |-> LinkBodies[b], Links |-> NoLinks]
    /\ \E ps \in ParserLists : resolver = [parsers |-> ps, pos |-> 1, ran |-> 0, ranErr |-> FALSE, err |-> Nil]

\* the state after the strategy at pos returned r: ran is its place and
\* ranErr whether it returned an error, err the error ParseLinks is to return
Ran(name, r) ==
    /\ resp' = [resp EXCEPT !.Links = r.links]
    /\ \E next \in NextParser(resolver.pos, r.err, Len(resolver.parsers)),
          err \in NextErr(resolver.err, name, r.err) :
          resolver' = [resolver EXCEPT !.pos = next, !.ran = resolver.pos,
                                       !.ranErr = r.err, !.err = err]

\* one iteration of ParseLinks: the header strategy is next
ParseLinkHeader ==
    /\ resolver.pos <= Len(resolver.parsers)
    /\ resolver.parsers[resolver.pos] = "header"
    /\ Ran("header", LinkHeaderParser(resp.Headers, resp.Body, resp.Links))
    /\ UNCHANGED <<startupVars, mergeVars, lookupVars, saveVars, callVars>>

\* one iteration of ParseLinks: the HAL strategy is next
ParseHAL ==
    /\ resolver.pos <= Len(resolver.parsers)
    /\ resolver.parsers[resolver.pos] = "hal"
    /\ Ran("hal", HALParser(resp.Headers, resp.Body, resp.Links))
    /\ UNCHANGED <<startupVars, mergeVars, lookupVars, saveVars, callVars>>

\* one iteration of ParseLinks: the Siren strategy is next
ParseSiren ==
    /\ resolver.pos <= Len(resolver.parsers)
    /\ resolver.parsers[resolver.pos] = "siren"
    /\ Ran("siren", SirenParser(resp.Headers, resp.Body, resp.Links))
    /\ UNCHANGED <<startupVars, mergeVars, lookupVars, saveVars, callVars>>

\* one iteration of ParseLinks: the JSON:API strategy is next
ParseJSONAPI ==
    /\ resolver.pos <= Len(resolver.parsers)
    /\ resolver.parsers[resolver.pos] = "jsonapi"
    /\ Ran("jsonapi", JSONAPIParser(resp.Headers, resp.Body, resp.Links))
    /\ UNCHANGED <<startupVars, mergeVars, lookupVars, saveVars, callVars>>

\* one iteration of ParseLinks: the heuristic strategy is next
ParseSimpleJSON ==
    /\ resolver.pos <= Len(resolver.parsers)
    /\ resolver.parsers[resolver.pos] = "simple"
    /\ Ran("simple", TerrificallySimpleJSONParser(resp.Headers, resp.Body, resp.Links))
    /\ UNCHANGED <<startupVars, mergeVars, lookupVars, saveVars, callVars>>

\* one iteration of ParseLinks: the failing strategy is next
ParseFailing ==
    /\ resolver.pos <= Len(resolver.parsers)
    /\ resolver.parsers[resolver.pos] = "error"
    /\ Ran("error", errorLinkParser(resp.Headers, resp.Body, resp.Links))
    /\ UNCHANGED <<startupVars, mergeVars, lookupVars, saveVars, callVars>>

LinksNext ==
    \/ ParseLinkHeader \/ ParseHAL \/ ParseSiren \/ ParseJSONAPI
    \/ ParseSimpleJSON \/ ParseFailing

SpecLinks == LinksInit /\ [][LinksNext]_vars

(***************************************************************************)
(* openapiOperation (openapi/openapi.go): the parameters, the name and the *)
(* aliases of a compiled operation.  Identifiers, paths and names are      *)
(* sequences of characters, written here without digits                    *)
(***************************************************************************)
UpperChars == <<"A", "B", "C", "D", "E", "F", "G", "H", "I", "J", "K", "L", "M", "N", "O", "P", "Q", "R", "S", "T", "U", "V", "W", "X", "Y", "Z">>
LowerChars == <<"a", "b", "c", "d", "e", "f", "g", "h", "i", "j", "k", "l", "m", "n", "o", "p", "q", "r", "s", "t", "u", "v", "w", "x", "y", "z">>

IsUpper(c) == \E i \in 1..Len(UpperChars) : UpperChars[i] = c
IsLower(c) == \E i \in 1..Len(LowerChars) : LowerChars[i] = c
IsLetter(c) == IsUpper(c) \/ IsLower(c)
ToLowerChar(c) ==
    IF IsUpper(c) THEN LowerChars[CHOOSE i \in 1..Len(UpperChars) : UpperChars[i] = c] ELSE c
\* strings.ToLower
ToLower(s) == [i \in 1..Len(s) |-> ToLowerChar(s[i])]

\* whether a word starts at the letter s[i] that follows a letter: an upper
\* case letter after a lower case one, or the last of a run of upper case
\* letters when a lower case one follows
WordStart(s, i) ==
    /\ IsUpper(s[i])
    /\ \/ IsLower(s[i - 1])
       \/ IsUpper(s[i - 1]) /\ i < Len(s) /\ IsLower(s[i + 1])

\* casing.Split from position i on, cur being the word read so far: words
\* end at a character that is not a letter and where the case changes
RECURSIVE CasingSplit(_, _, _)
CasingSplit(s, i, cur) ==
    IF i > Len(s) THEN (IF cur = <<>> THEN <<>> ELSE <<cur>>)
    ELSE IF ~IsLetter(s[i])
    THEN (IF cur = <<>> THEN <<>> ELSE <<cur>>) \o CasingSplit(s, i + 1, <<>>)
    ELSE IF cur # <<>> /\ WordStart(s, i)
    THEN <<cur>> \o CasingSplit(s, i + 1, <<s[i]>>)
    ELSE CasingSplit(s, i + 1, Append(cur, s[i]))

\* casing.Kebab
Kebab(s) == ToLower(StringsJoin(CasingSplit(s, 1, <<>>), <<"-">>))

\* strings.Trim
RECURSIVE StringsTrim(_, _)
StringsTrim(s, cutset) ==
    IF s = <<>> THEN s
    ELSE IF s[1] \in cutset THEN StringsTrim(Tail(s), cutset)
    ELSE IF s[Len(s)] \in cutset THEN StringsTrim(SubSeq(s, 1, Len(s) - 1), cutset)
    ELSE s

\* runs of dashes made one dash
RECURSIVE CollapseDashes(_)
CollapseDashes(s) ==
    IF Len(s) < 2 THEN s
    ELSE IF s[1] = "-" /\ s[2] = "-" THEN CollapseDashes(Tail(s))
    ELSE <<s[1]>> \o CollapseDashes(Tail(s))

\* slug.Make: lower case, every character but letters, "-" and "_" replaced
\* by "-", runs of "-" made one, "-" and "_" trimmed at both ends
SlugMake(s) ==
    LET lower == ToLower(TrimSpace(s))
        dashed == [i \in 1..Len(lower) |->
                      IF IsLetter(lower[i]) \/ lower[i] \in {"-", "_"}
                      THEN lower[i] ELSE "-"]
    IN  StringsTrim(CollapseDashes(dashed), {"-", "_"})

\* the combination with the parameters of the path first
CombinedParamsPathFirst(opParams, pathParams) ==
    LET seen == {pathParams[i].Name : i \in 1..Len(pathParams)}
    IN  pathParams \o SelectSeq(opParams, LAMBDA p : p.Name \notin seen)
\* the parameters of the operation, then those of the path whose name no
\* parameter of the operation has
CombinedParams(opParams, pathParams) ==
    LET seen == {opParams[i].Name : i \in 1..Len(opParams)}
    IN  opParams \o SelectSeq(pathParams, LAMBDA p : p.Name \notin seen)

\* a scalar YAML node: its tag and its text
Node(tag, text) == [Tag |-> tag, Value |-> text]
TagInt == "!!int"
TagStr == "!!str"

\* the number a decimal text stands for
RECURSIVE ParseInt(_)
ParseInt(text) ==
    IF text = <<>> THEN 0
    ELSE LET d == CHOOSE i \in 1..10 : Digits[i] = text[Len(text)]
         IN  10 * ParseInt(SubSeq(text, 1, Len(text) - 1)) + (d - 1)

\* decodeYAML: the Go value of a scalar node
decodeYAML(node) ==
    IF node.Tag = TagInt THEN VNum(ParseInt(node.Value)) ELSE VStr(node.Value)

\* the default of a compiled parameter: the decoded default of its schema,
\* nil without a schema or without a default
DefaultOf(p) ==
    IF p.Schema # Nil /\ p.Schema[1].Default # Nil
    THEN Ptr(decodeYAML(p.Schema[1].Default[1]))
    ELSE Nil

\* the example with the default of the schema used when no example is
\* declared
ExampleOfElseDefault(p) ==
    IF p.Example # Nil THEN Ptr(decodeYAML(p.Example[1]))
    ELSE IF p.Schema # Nil /\ p.Schema[1].Example # Nil
    THEN Ptr(decodeYAML(p.Schema[1].Example[1]))
    ELSE DefaultOf(p)
\* the example of a compiled parameter: the decoded example of the
\* parameter, else the decoded example of its schema, else nil
ExampleOf(p) ==
    IF p.Example # Nil THEN Ptr(decodeYAML(p.Example[1]))
    ELSE IF p.Schema # Nil /\ p.Schema[1].Example # Nil
    THEN Ptr(decodeYAML(p.Schema[1].Example[1]))
    ELSE Nil

\* the cli.Param compiled from a parameter
CompiledParam(p) == [Name |-> p.Name, Description |-> p.Description,
                     Default |-> DefaultOf(p), Example |-> ExampleOf(p)]

\* the parameters compiled into the list of one location
ParamsIn(combined, in) ==
    LET kept == SelectSeq(combined, LAMBDA p : ~p.Ignore /\ p.In = in)
    IN  [i \in 1..Len(kept) |-> CompiledParam(kept[i])]

\* the name from the identifier alone, whatever its dash-case form is
KebabNameByIdentifier(operationId, method, uriPath) ==
    IF operationId # <<>> THEN Kebab(operationId)
    ELSE Kebab(method \o <<"-">> \o StringsTrim(uriPath, {"/"}))
\* the name before the override: the identifier in dash-case, or the method
\* and the path in dash-case when that is empty
KebabName(operationId, method, uriPath) ==
    IF Kebab(operationId) # <<>> THEN Kebab(operationId)
    ELSE Kebab(method \o <<"-">> \o StringsTrim(uriPath, {"/"}))

\* the alias rule applied with an override too
LegacyAliasesAlways(aliases, override, name, operationId) ==
    LET chosen == IF override # <<>> THEN override ELSE name
    IN  IF SlugMake(operationId) # <<>> /\ SlugMake(operationId) # chosen
        THEN Append(aliases, SlugMake(operationId)) ELSE aliases
\* the aliases: those of the extension, and without an override the old
\* name when it is not empty and differs
LegacyAliases(aliases, override, name, operationId) ==
    IF override # <<>> THEN aliases
    ELSE IF SlugMake(operationId) # <<>> /\ SlugMake(operationId) # name
    THEN Append(aliases, SlugMake(operationId))
    ELSE aliases


\* the hash of no schema, and the hash of a schema: a schema is the
\* sequence of its <<property, type>> entries, and its hash does not depend
\* on the order they are written in
ZeroHash == <<"zero", {}>>
Hash(schema) == <<"sha256", Range(schema)>>

CodeDefault == <<"d", "e", "f", "a", "u", "l", "t">>

\* respMap: the response declared for a code
RespOf(responses, code) ==
    IF code = CodeDefault THEN responses.Default[1]
    ELSE LET i == CHOOSE j \in 1..Len(responses.Codes) : responses.Codes[j][1] = code
         IN  responses.Codes[i][2]

\* the codes in the order they are declared, the default response last
DeclaredCodes(responses) ==
    [i \in 1..Len(responses.Codes) |-> responses.Codes[i][1]]
      \o (IF responses.Default # Nil THEN <<CodeDefault>> ELSE <<>>)
\* the declared codes, the default response last, then sorted as strings
SortedCodes(responses) ==
    SortStrings({responses.Codes[i][1] : i \in 1..Len(responses.Codes)}
                  \cup (IF responses.Default # Nil THEN {CodeDefault} ELSE {}))

\* the entries one code adds: one for each content type, or one without
\* content type and schema when the response has no content
EntriesOfCode(code, r) ==
    IF r.Content # <<>>
    THEN [i \in 1..Len(r.Content) |->
             [code |-> code, ct |-> r.Content[i][1], schema |-> r.Content[i][2],
              hash |-> IF r.Content[i][2] # Nil THEN Hash(r.Content[i][2][1])
                       ELSE ZeroHash]]
    ELSE <<[code |-> code, ct |-> <<>>, schema |-> Nil, hash |-> ZeroHash]>>

\* every entry, in the order of the sorted codes
SchemaEntries(responses) ==
    LET codes == SortedCodes(responses)
    IN  Flatten([i \in 1..Len(codes) |-> EntriesOfCode(codes[i], RespOf(responses, codes[i]))])

\* schemaMap: the entries that share a hash, in the order they were added
SchemaMap(responses, h) == SelectSeq(SchemaEntries(responses), LAMBDA e : e.hash = h)

SchemaHashes(responses) ==
    {SchemaEntries(responses)[i].hash : i \in 1..Len(SchemaEntries(responses))}

\* the orders sort.Slice can leave the keys of schemaMap in: maps.Keys
\* gives them in any order, and the comparison only looks at the code of
\* the first entry of each
SchemaKeyOrders(responses) ==
    {o \in Orders(SchemaHashes(responses)) :
        \A i, j \in DOMAIN o :
            i < j => ~LessStr(SchemaMap(responses, o[j])[1].code,
                              SchemaMap(responses, o[i])[1].code)}

HeadingResponse == <<"#", "#", " ", "R", "e", "s", "p", "o", "n", "s", "e", " ">>
HeadingResponses == <<"#", "#", " ", "R", "e", "s", "p", "o", "n", "s", "e", "s", " ">>
NoBodyText == <<"R", "e", "s", "p", "o", "n", "s", "e", " ", "h", "a", "s", " ", "n", "o", " ", "b", "o", "d", "y">>

\* the codes of the entries, joined
JoinedCodes(entries) ==
    StringsJoin([i \in 1..Len(entries) |-> entries[i].code], <<"/">>)

\* the section written for the entries of one hash
ResponseSection(responses, h) ==
    LET entries == SchemaMap(responses, h)
        hasSchema == h # ZeroHash
        ct == IF hasSchema THEN <<" ", "(">> \o entries[1].ct \o <<")">> ELSE <<>>
        first == RespOf(responses, entries[1].code)
    IN  [Heading |-> IF Len(entries) = 1
                     THEN HeadingResponse \o entries[1].code \o ct
                     ELSE HeadingResponses \o JoinedCodes(entries) \o ct,
         Text |-> IF Len(entries) = 1 /\ first.Description # <<>> THEN first.Description
                  ELSE IF ~hasSchema THEN NoBodyText
                  ELSE <<>>,
         Headers |-> SortStrings(Range(first.Headers)),
         Schema |-> IF hasSchema THEN entries[1].schema ELSE Nil]

\* the response sections of the description, for one order of the keys
ResponseSections(responses, schemaKeys) ==
    [i \in 1..Len(schemaKeys) |-> ResponseSection(responses, schemaKeys[i])]

\* strings.Contains
StringsContains(s, substr) ==
    \E i \in 0..(Len(s) - Len(substr)) : SubSeq(s, i + 1, i + Len(substr)) = substr

ShortJSON == <<"j", "s", "o", "n">>
ShortYAML == <<"y", "a", "m", "l">>

\* the examples of one media type: its example, then its named examples in
\* the order of their sorted names, or one generated from the schema when
\* there is a schema and no example
ExamplesOf(item) ==
    LET names == SortStrings({item.Examples[i][1] : i \in 1..Len(item.Examples)})
        named == [k \in 1..Len(names) |->
                     decodeYAML((CHOOSE e \in Range(item.Examples) : e[1] = names[k])[2])]
        declared == (IF item.Example # Nil THEN <<decodeYAML(item.Example[1])>> ELSE <<>>)
                      \o named
    IN  IF item.Schema # Nil /\ declared = <<>>
        THEN <<[t |-> "generated", v |-> item.Schema[1]]>>
        ELSE declared

\* what getRequestInfo returns for the media type at position i
RequestInfoAt(content, i) ==
    [mt |-> content[i][1], schema |-> content[i][2].Schema,
     examples |-> ExamplesOf(content[i][2])]

\* getRequestInfo: the results it can return.  The media types are kept in
\* a Go map, and the first one the range over that map visits that holds
\* json is returned, else the first that holds yaml, else the first visited
getRequestInfo(op) ==
    LET content == IF op.RequestBody = Nil THEN <<>> ELSE op.RequestBody[1].Content
        holding(short) == {i \in 1..Len(content) : StringsContains(content[i][1], short)}
        chosen == IF holding(ShortJSON) # {} THEN holding(ShortJSON)
                  ELSE IF holding(ShortYAML) # {} THEN holding(ShortYAML)
                  ELSE 1..Len(content)
    IN  IF content = <<>> THEN {[mt |-> <<>>, schema |-> Nil, examples |-> <<>>]}
        ELSE {RequestInfoAt(content, i) : i \in chosen}

\* openapiOperation: the fields of the cli.Operation it returns, for the
\* order schemaKeys the keys of schemaMap come out of the sort in and the
\* result reqInfo of getRequestInfo; Long holds the response sections of
\* the description
openapiOperation(method, uriPath, path, op, schemaKeys, reqInfo) ==
    LET combined == CombinedParams(op.Parameters, path.Parameters)
        name == KebabName(op.OperationId, method, uriPath)
    IN  [Name |-> IF op.ExtName # <<>> THEN op.ExtName ELSE name,
         Aliases |-> LegacyAliases(op.ExtAliases, op.ExtName, name, op.OperationId),
         Long |-> ResponseSections(op.Responses, schemaKeys),
         PathParams |-> ParamsIn(combined, "path"),
         QueryParams |-> ParamsIn(combined, "query"),
         HeaderParams |-> ParamsIn(combined, "header"),
         BodyMediaType |-> IF op.RequestBody # Nil THEN reqInfo.mt ELSE <<>>]

OperationIds == {<<>>, <<"g", "e", "t", "W", "i", "d", "g", "e", "t">>, <<"g", "e", "t", "-", "w", "i", "d", "g", "e", "t">>, <<"g", "e", "t", "_", "w", "i", "d", "g", "e", "t">>, <<"-">>, <<"_", " ", "_">>, <<"l", "i", "s", "t", "H", "T", "T", "P", "W", "i", "d", "g", "e", "t", "s">>, <<"L", "i", "s", "t", " ", "W", "i", "d", "g", "e", "t", "s">>}
Methods == {<<"G", "E", "T">>, <<"P", "O", "S", "T">>}
URIPaths == {<<"/", "w", "i", "d", "g", "e", "t", "s", "/", "{", "i", "d", "}">>, <<"/", "w", "i", "d", "g", "e", "t", "s">>, <<"/">>}
NameOverrides == {<<>>, <<"f", "e", "t", "c", "h">>, <<"g", "e", "t", "w", "i", "d", "g", "e", "t">>}
AliasLists == {<<>>, <<<<"g", "w">>>>}

\* a parameter without schema and without example
Parameter(name, in, ignore, description) ==
    [Name |-> name, In |-> in, Ignore |-> ignore, Description |-> description,
     Schema |-> Nil, Example |-> Nil]

\* the nodes a default or an example is written as
NodeDefault == Node(TagInt, <<"1", "0">>)
NodeSchemaExample == Node(TagInt, <<"2", "5">>)
NodeParamExample == Node(TagStr, <<"5", "0">>)

\* the schemas of a parameter: none, or one with or without default and
\* example
ParamSchemas ==
    {Nil} \cup {Ptr([Default |-> d, Example |-> e]) :
                   d \in {Nil, Ptr(NodeDefault)}, e \in {Nil, Ptr(NodeSchemaExample)}}

\* a query parameter with a schema and an example of its own
SchemaParameter(name, schema, example) ==
    [Name |-> name, In |-> "query", Ignore |-> FALSE, Description |-> "limit",
     Schema |-> schema, Example |-> example]

\* one parameter in each combination of schema default, schema example and
\* example of its own
SchemaParameterLists ==
    {<<SchemaParameter("limit", sc, ex)>> :
        sc \in ParamSchemas, ex \in {Nil, Ptr(NodeParamExample)}}

\* the parameters an operation declares
OpParameterLists == {
    <<>>,
    <<Parameter("id", "path", FALSE, "op id")>>,
    <<Parameter("id", "query", FALSE, "op id")>>,
    <<Parameter("id", "path", TRUE, "op id")>>,
    <<Parameter("q", "query", FALSE, "op q"), Parameter("id", "path", FALSE, "op id")>>,
    <<Parameter("c", "cookie", FALSE, "op c"), Parameter("h", "header", FALSE, "op h")>>
} \cup SchemaParameterLists
\* the parameters the enclosing path item declares
PathParameterLists == {
    <<>>,
    <<Parameter("id", "path", FALSE, "path id")>>,
    <<Parameter("id", "path", TRUE, "path id")>>,
    <<Parameter("q", "header", FALSE, "path q")>>,
    <<Parameter("id", "path", FALSE, "path id"), Parameter("q", "query", FALSE, "path q"),
      Parameter("t", "query", TRUE, "path t")>>
}

\* schemas of responses: the first two differ in the order of their
\* properties only
SchemaWidget == <<<<"id", "string">>, <<"name", "string">>>>
SchemaWidgetReordered == <<<<"name", "string">>, <<"id", "string">>>>
SchemaError == <<<<"message", "string">>>>

MediaJSON == <<"a", "p", "p", "l", "i", "c", "a", "t", "i", "o", "n", "/", "j", "s", "o", "n">>
MediaProblemJSON == <<"a", "p", "p", "l", "i", "c", "a", "t", "i", "o", "n", "/", "p", "r", "o", "b", "l", "e", "m", "+", "j", "s", "o", "n">>
MediaXML == <<"a", "p", "p", "l", "i", "c", "a", "t", "i", "o", "n", "/", "x", "m", "l">>
MediaYAML == <<"a", "p", "p", "l", "i", "c", "a", "t", "i", "o", "n", "/", "y", "a", "m", "l">>
MediaText == <<"t", "e", "x", "t", "/", "p", "l", "a", "i", "n">>

Response(content, description, headers) ==
    [Content |-> content, Description |-> description, Headers |-> headers]

\* the responses a code can declare: one content type with a schema,
\* nothing, two content types with different schemas or with the same one,
\* a content type without schema
ResponseChoices == {
    Response(<<<<MediaJSON, Ptr(SchemaWidget)>>>>, <<"o", "k">>, <<<<"e", "t", "a", "g">>, <<"a", "g", "e">>>>),
    Response(<<<<MediaJSON, Ptr(SchemaWidgetReordered)>>>>, <<>>, <<>>),
    Response(<<<<MediaJSON, Ptr(SchemaError)>>>>, <<"e", "r", "r", "o", "r">>, <<>>),
    Response(<<>>, <<>>, <<>>),
    Response(<<>>, <<"g", "o", "n", "e">>, <<<<"a", "g", "e">>>>),
    Response(<<<<MediaJSON, Ptr(SchemaWidget)>>, <<MediaXML, Ptr(SchemaError)>>>>, <<>>, <<>>),
    Response(<<<<MediaJSON, Ptr(SchemaWidget)>>, <<MediaProblemJSON, Ptr(SchemaWidget)>>>>, <<>>, <<>>),
    Response(<<<<MediaText, Nil>>>>, <<>>, <<>>)
}

\* the codes of the responses, in the orders a document declares them
CodeLists == {<<>>, <<<<"2", "0", "0">>>>, <<<<"2", "0", "0">>, <<"2", "0", "1">>>>, <<<<"2", "0", "1">>, <<"2", "0", "0">>>>,
              <<<<"2", "0", "0">>, <<"2", "0", "1">>, <<"4", "0", "4">>>>, <<<<"4", "0", "4">>, <<"2", "0", "1">>, <<"2", "0", "0">>>>}

NoResponses == [Codes |-> <<>>, Default |-> Nil]

\* the responses of an operation: each code of a list with one of the
\* choices, with or without a default response
ResponsesInputs ==
    UNION {{[Codes |-> [i \in 1..Len(cl) |-> <<cl[i], rs[i]>>], Default |-> d] :
               rs \in [1..Len(cl) -> ResponseChoices],
               d \in {Nil, Ptr(Response(<<<<MediaJSON, Ptr(SchemaError)>>>>, <<>>, <<>>))}} :
           cl \in CodeLists}

\* how often an operation is compiled
MaxCompilations == 2

\* what a media type of a request body declares
MediaItem(example, examples, schema) ==
    [Example |-> example, Examples |-> examples, Schema |-> schema]
ItemChoices == {
    MediaItem(Nil, <<>>, Ptr(SchemaWidget)),
    MediaItem(Ptr(NodeParamExample), <<>>, Ptr(SchemaError)),
    MediaItem(Nil, <<<<<<"b">>, NodeDefault>>, <<<<"a">>, NodeSchemaExample>>>>, Nil)
}
RequestMediaTypes == {MediaJSON, MediaProblemJSON, MediaYAML, MediaXML, MediaText}

\* the media types of a request body, in the order of the document
MaxMediaTypes == 3
ContentLists ==
    UNION {{c \in [1..n -> RequestMediaTypes \X ItemChoices] :
               \A i, j \in 1..n : i # j => c[i][1] # c[j][1]} : n \in 0..MaxMediaTypes}
RequestBodies == {Nil} \cup {Ptr([Content |-> c]) : c \in ContentLists}

\* request bodies of an operation that is compiled whole
OperationBodies == {
    Ptr([Content |-> <<>>]),
    Ptr([Content |-> <<<<MediaXML, MediaItem(Nil, <<>>, Ptr(SchemaWidget))>>,
                       <<MediaJSON, MediaItem(Nil, <<>>, Ptr(SchemaWidget))>>>>]),
    Ptr([Content |-> <<<<MediaXML, MediaItem(Nil, <<>>, Ptr(SchemaWidget))>>,
                       <<MediaText, MediaItem(Nil, <<>>, Nil)>>>>])
}

RequestInfoInit ==
    /\ NoResponse
    /\ Idle
    /\ configs = EmptyMap
    /\ mdest = Nil /\ msrc = Nil /\ mres = Nil /\ mcount = 0
    /\ found = Nil /\ prevFound = Nil
    /\ \E body \in RequestBodies :
          args = Ptr([fn |-> "getRequestInfo", op |-> [RequestBody |-> body]])
    /\ ret = Nil

GetRequestInfo ==
    /\ args # Nil /\ ret = Nil
    /\ args[1].fn = "getRequestInfo"
    /\ \E info \in getRequestInfo(args[1].op) : ret' = Ptr(info)
    /\ UNCHANGED <<args, startupVars, mergeVars, lookupVars, saveVars, linkVars>>

RequestInfoNext == GetRequestInfo

SpecRequestInfo == RequestInfoInit /\ [][RequestInfoNext]_vars

OperationInit ==
    /\ NoResponse
    /\ Idle
    /\ configs = EmptyMap
    /\ mdest = Nil /\ msrc = Nil /\ mres = Nil /\ mcount = 0
    /\ found = Nil /\ prevFound = Nil
    /\ \/ \E id \in OperationIds, m \in Methods, u \in URIPaths, n \in NameOverrides,
             al \in AliasLists, ops \in OpParameterLists, pps \in PathParameterLists :
             args = Ptr([fn |-> "openapiOperation", method |-> m, uriPath |-> u,
                         path |-> [Parameters |-> pps],
                         op |-> [OperationId |-> id, ExtName |-> n, ExtAliases |-> al,
                                 Parameters |-> ops, Responses |-> NoResponses,
                                 RequestBody |-> Nil]])
       \/ \E rs \in ResponsesInputs :
             args = Ptr([fn |-> "openapiOperation", method |-> <<"G", "E", "T">>,
                         uriPath |-> <<"/">>, path |-> [Parameters |-> <<>>],
                         op |-> [OperationId |-> <<>>, ExtName |-> <<>>,
                                 ExtAliases |-> <<>>, Parameters |-> <<>>,
                                 Responses |-> rs, RequestBody |-> Nil]])
       \/ \E body \in OperationBodies :
             args = Ptr([fn |-> "openapiOperation", method |-> <<"P", "O", "S", "T">>,
                         uriPath |-> <<"/">>, path |-> [Parameters |-> <<>>],
                         op |-> [OperationId |-> <<>>, ExtName |-> <<>>,
                                 ExtAliases |-> <<>>, Parameters |-> <<>>,
                                 Responses |-> NoResponses, RequestBody |-> body]])
    /\ ret = Nil

\* one compilation of the operation; its result is added to ret
OpenapiOperation ==
    /\ args # Nil /\ Len(ret) < MaxCompilations
    /\ args[1].fn = "openapiOperation"
    /\ \E schemaKeys \in SchemaKeyOrders(args[1].op.Responses),
          reqInfo \in getRequestInfo(args[1].op) :
          ret' = Append(ret, openapiOperation(args[1].method, args[1].uriPath,
                                              args[1].path, args[1].op, schemaKeys,
                                              reqInfo))
    /\ UNCHANGED <<args, startupVars, mergeVars, lookupVars, saveVars, linkVars>>

OperationNext == OpenapiOperation

SpecOperation == OperationInit /\ [][OperationNext]_vars

(***************************************************************************)
(* loadAutoConfig (openapi/openapi.go).  A document holds its extension    *)
(* block x-cli-config and its components; a map of security schemes is a   *)
(* function from their names                                               *)
(***************************************************************************)
AuthHTTPBasic == "http-basic"
AuthAuthorizationCode == "oauth-authorization-code"
AuthClientCredentials == "oauth-client-credentials"

\* the auth name a declared scheme is converted to, the name of the block
\* when the scheme has no conversion
AuthNameOf(security, scheme) ==
    IF scheme.Type = "http" /\ scheme.Scheme = "basic" THEN AuthHTTPBasic
    ELSE IF scheme.Type = "oauth2" /\ scheme.Flows # Nil
            /\ scheme.Flows[1].AuthorizationCode # Nil THEN AuthAuthorizationCode
    ELSE IF scheme.Type = "oauth2" /\ scheme.Flows # Nil
            /\ scheme.Flows[1].ClientCredentials # Nil THEN AuthClientCredentials
    ELSE security

\* the params set from a declared scheme: those of the authorization code
\* flow when there is one, else those of the client credentials flow
DerivedParams(scheme) ==
    IF scheme.Type = "oauth2" /\ scheme.Flows # Nil
    THEN IF scheme.Flows[1].AuthorizationCode # Nil
         THEN ("client_id" :> "")
                @@ ("authorize_url" :> scheme.Flows[1].AuthorizationCode[1].AuthorizationUrl)
                @@ ("token_url" :> scheme.Flows[1].AuthorizationCode[1].TokenUrl)
         ELSE IF scheme.Flows[1].ClientCredentials # Nil
         THEN ("client_id" :> "") @@ ("client_secret" :> "")
                @@ ("token_url" :> scheme.Flows[1].ClientCredentials[1].TokenUrl)
         ELSE EmptyMap
    ELSE EmptyMap

\* the params with the values of the scheme kept over those of the block
OverrideParamsKeepDerived(derived, explicit) == MergeMapKeepDest(derived, explicit)
\* the params of the block written over those set from the scheme
OverrideParams(derived, explicit) == MergeMap(derived, explicit)

\* loadAutoConfig: whether it panics, and the AutoConfig it stores in the
\* API, nil when it returns before storing one
loadAutoConfig(model) ==
    IF model.Extensions = Nil \/ model.Extensions[1].CLIConfig = Nil
    THEN [panic |-> FALSE, AutoConfig |-> Nil]
    ELSE LET config == model.Extensions[1].CLIConfig[1]
         IN  IF model.Components = Nil
             THEN [panic |-> TRUE, AutoConfig |-> Nil]
             ELSE IF model.Components[1].SecuritySchemes = Nil
             THEN [panic |-> FALSE,
                   AutoConfig |-> Ptr([Headers |-> config.Headers, Prompt |-> config.Prompt,
                                       Auth |-> [Name |-> config.Security,
                                                 Params |-> OverrideParams(EmptyMap, config.Params)]])]
             ELSE LET schemes == model.Components[1].SecuritySchemes[1]
                  IN  IF config.Security \notin DOMAIN schemes
                      THEN [panic |-> TRUE, AutoConfig |-> Nil]
                      ELSE LET scheme == schemes[config.Security]
                           IN  [panic |-> FALSE,
                                AutoConfig |->
                                    Ptr([Headers |-> config.Headers, Prompt |-> config.Prompt,
                                         Auth |-> [Name |-> AuthNameOf(config.Security, scheme),
                                                   Params |-> OverrideParams(DerivedParams(scheme),
                                                                             config.Params)]])]

SecurityScheme(type, scheme, flows) == [Type |-> type, Scheme |-> scheme, Flows |-> flows]
FlowAuthorizationCode ==
    Ptr([AuthorizationUrl |-> "https://auth.example.com/authorize",
         TokenUrl |-> "https://auth.example.com/token"])
FlowClientCredentials == Ptr([TokenUrl |-> "https://auth.example.com/cc-token"])
Flows(ac, cc) == Ptr([AuthorizationCode |-> ac, ClientCredentials |-> cc])

\* the scheme maps of a document
SchemeMaps == {
    EmptyMap,
    ("basic" :> SecurityScheme("http", "basic", Nil)),
    ("basic" :> SecurityScheme("http", "bearer", Nil)),
    ("oauth" :> SecurityScheme("oauth2", "", Flows(FlowAuthorizationCode, Nil))),
    ("oauth" :> SecurityScheme("oauth2", "", Flows(Nil, FlowClientCredentials))),
    ("oauth" :> SecurityScheme("oauth2", "", Flows(FlowAuthorizationCode, FlowClientCredentials))),
    ("oauth" :> SecurityScheme("oauth2", "", Flows(Nil, Nil))),
    ("oauth" :> SecurityScheme("oauth2", "", Nil)),
    ("oauth" :> SecurityScheme("apiKey", "", Nil))
      @@ ("basic" :> SecurityScheme("http", "basic", Nil))
}
ComponentsInputs ==
    {Nil, Ptr([SecuritySchemes |-> Nil])}
      \cup {Ptr([SecuritySchemes |-> Ptr(m)]) : m \in SchemeMaps}

SecurityNames == {"oauth", "basic", "missing"}
\* the params the block sets
ExplicitParams == {
    EmptyMap,
    ("audience" :> "widgets"),
    ("client_id" :> "abc123"),
    ("token_url" :> "https://override.example.com/token") @@ ("audience" :> "widgets")
}
AutoConfigBlocks ==
    {[Security |-> sec, Headers |-> ("x-tenant" :> "acme"), Prompt |-> EmptyMap,
      Params |-> ps] : sec \in SecurityNames, ps \in ExplicitParams}
\* the extensions of a document: none, some without the block, or the block
ExtensionsInputs ==
    {Nil, Ptr([CLIConfig |-> Nil])} \cup {Ptr([CLIConfig |-> Ptr(b)]) : b \in AutoConfigBlocks}

AutoConfigInit ==
    /\ NoResponse
    /\ Idle
    /\ configs = EmptyMap
    /\ mdest = Nil /\ msrc = Nil /\ mres = Nil /\ mcount = 0
    /\ found = Nil /\ prevFound = Nil
    /\ \E ext \in ExtensionsInputs, comps \in ComponentsInputs :
          args = Ptr([fn |-> "loadAutoConfig",
                      model |-> [Extensions |-> ext, Components |-> comps]])
    /\ ret = Nil

LoadAutoConfig ==
    /\ args # Nil /\ ret = Nil
    /\ args[1].fn = "loadAutoConfig"
    /\ ret' = Ptr(loadAutoConfig(args[1].model))
    /\ UNCHANGED <<args, startupVars, mergeVars, lookupVars, saveVars, linkVars>>

AutoConfigNext == LoadAutoConfig

SpecAutoConfig == AutoConfigInit /\ [][AutoConfigNext]_vars

(***************************************************************************)
(* getBasePath (openapi/openapi.go).  A server holds its URL and its       *)
(* variables, the sequence of <<name, variable>> in the order of the       *)
(* document                                                                *)
(***************************************************************************)
\* strings.ReplaceAll for a non-empty old
RECURSIVE StringsReplaceAll(_, _, _)
StringsReplaceAll(s, old, new) ==
    IF Len(s) < Len(old) THEN s
    ELSE IF SubSeq(s, 1, Len(old)) = old
    THEN new \o StringsReplaceAll(SubSeq(s, Len(old) + 1, Len(s)), old, new)
    ELSE <<Head(s)>> \o StringsReplaceAll(Tail(s), old, new)

\* the character of each byte; a byte outside printable ASCII, and the grave
\* accent, are written \xNN
ByteChars == <<
    "\\x00", "\\x01", "\\x02", "\\x03", "\\x04", "\\x05", "\\x06", "\\x07",
    "\\x08", "\\x09", "\\x0a", "\\x0b", "\\x0c", "\\x0d", "\\x0e", "\\x0f",
    "\\x10", "\\x11", "\\x12", "\\x13", "\\x14", "\\x15", "\\x16", "\\x17",
    "\\x18", "\\x19", "\\x1a", "\\x1b", "\\x1c", "\\x1d", "\\x1e", "\\x1f",
    " ", "!", "\"", "#", "$", "%", "&", "'",
    "(", ")", "*", "+", ",", "-", ".", "/",
    "0", "1", "2", "3", "4", "5", "6", "7",
    "8", "9", ":", ";", "<", "=", ">", "?",
    "@", "A", "B", "C", "D", "E", "F", "G",
    "H", "I", "J", "K", "L", "M", "N", "O",
    "P", "Q", "R", "S", "T", "U", "V", "W",
    "X", "Y", "Z", "[", "\\", "]", "^", "_",
    "\\x60", "a", "b", "c", "d", "e", "f", "g",
    "h", "i", "j", "k", "l", "m", "n", "o",
    "p", "q", "r", "s", "t", "u", "v", "w",
    "x", "y", "z", "{", "|", "}", "~", "\\x7f",
    "\\x80", "\\x81", "\\x82", "\\x83", "\\x84", "\\x85", "\\x86", "\\x87",
    "\\x88", "\\x89", "\\x8a", "\\x8b", "\\x8c", "\\x8d", "\\x8e", "\\x8f",
    "\\x90", "\\x91", "\\x92", "\\x93", "\\x94", "\\x95", "\\x96", "\\x97",
    "\\x98", "\\x99", "\\x9a", "\\x9b", "\\x9c", "\\x9d", "\\x9e", "\\x9f",
    "\\xa0", "\\xa1", "\\xa2", "\\xa3", "\\xa4", "\\xa5", "\\xa6", "\\xa7",
    "\\xa8", "\\xa9", "\\xaa", "\\xab", "\\xac", "\\xad", "\\xae", "\\xaf",
    "\\xb0", "\\xb1", "\\xb2", "\\xb3", "\\xb4", "\\xb5", "\\xb6", "\\xb7",
    "\\xb8", "\\xb9", "\\xba", "\\xbb", "\\xbc", "\\xbd", "\\xbe", "\\xbf",
    "\\xc0", "\\xc1", "\\xc2", "\\xc3", "\\xc4", "\\xc5", "\\xc6", "\\xc7",
    "\\xc8", "\\xc9", "\\xca", "\\xcb", "\\xcc", "\\xcd", "\\xce", "\\xcf",
    "\\xd0", "\\xd1", "\\xd2", "\\xd3", "\\xd4", "\\xd5", "\\xd6", "\\xd7",
    "\\xd8", "\\xd9", "\\xda", "\\xdb", "\\xdc", "\\xdd", "\\xde", "\\xdf",
    "\\xe0", "\\xe1", "\\xe2", "\\xe3", "\\xe4", "\\xe5", "\\xe6", "\\xe7",
    "\\xe8", "\\xe9", "\\xea", "\\xeb", "\\xec", "\\xed", "\\xee", "\\xef",
    "\\xf0", "\\xf1", "\\xf2", "\\xf3", "\\xf4", "\\xf5", "\\xf6", "\\xf7",
    "\\xf8", "\\xf9", "\\xfa", "\\xfb", "\\xfc", "\\xfd", "\\xfe", "\\xff"
>>
\* ishex and unhex
HexChars == {"0", "1", "2", "3", "4", "5", "6", "7", "8", "9",
             "a", "b", "c", "d", "e", "f", "A", "B", "C", "D", "E", "F"}
unhex(c) ==
    IF c \in {"a", "A"} THEN 10 ELSE IF c \in {"b", "B"} THEN 11
    ELSE IF c \in {"c", "C"} THEN 12 ELSE IF c \in {"d", "D"} THEN 13
    ELSE IF c \in {"e", "E"} THEN 14 ELSE IF c \in {"f", "F"} THEN 15
    ELSE CHOOSE n \in 0..9 : ByteChars[49 + n] = c

\* the position of the first c in s, Len(s) + 1 without one
IndexOrEnd(s, c) ==
    IF \A i \in 1..Len(s) : s[i] # c THEN Len(s) + 1
    ELSE CHOOSE i \in 1..Len(s) : s[i] = c /\ \A j \in 1..(i - 1) : s[j] # c
\* the position of the last c in s, 0 without one
LastIndex(s, c) ==
    IF \A i \in 1..Len(s) : s[i] # c THEN 0
    ELSE CHOOSE i \in 1..Len(s) : s[i] = c /\ \A j \in (i + 1)..Len(s) : s[j] # c

\* stringContainsCTLByte
ControlChars == {ByteChars[n + 1] : n \in 0..31} \cup {ByteChars[128]}
ASCIIChars == {ByteChars[n + 1] : n \in 0..127}
AlphaNum == {ByteChars[n + 1] : n \in (48..57) \cup (65..90) \cup (97..122)}
\* the characters shouldEscape lets through in a host name
HostChars == AlphaNum \cup {"!", "$", "&", "'", "(", ")", "*", "+", ",", ";", "=", ":", "[", "]", "<", ">", "\"", "-", "_", ".", "~"}
\* validUserinfo
UserinfoChars == AlphaNum \cup {"-", ".", "_", ":", "~", "!", "$", "&", "'", "(", ")", "*", "+", ",", ";", "=", "%", "@"}

\* unescape: whether s holds a percent sign that two hexadecimal digits do
\* not follow
BadEscape(s) ==
    \E i \in 1..Len(s) :
        /\ s[i] = "%"
        /\ ~(i + 2 <= Len(s) /\ s[i + 1] \in HexChars /\ s[i + 2] \in HexChars)
\* unescape of a string without such a percent sign: every %XX replaced by
\* its byte
RECURSIVE Unescaped(_)
Unescaped(s) ==
    IF s = <<>> THEN <<>>
    ELSE IF Head(s) = "%"
    THEN <<ByteChars[16 * unhex(s[2]) + unhex(s[3]) + 1]>> \o Unescaped(SubSeq(s, 4, Len(s)))
    ELSE <<Head(s)>> \o Unescaped(Tail(s))

\* strings.Index of a non-empty substr in s, 0 without one
StringsIndex(s, substr) ==
    LET at == {i \in 1..(Len(s) - Len(substr) + 1) :
                  SubSeq(s, i, i + Len(substr) - 1) = substr}
    IN  IF at = {} THEN 0 ELSE CHOOSE i \in at : \A j \in at : i <= j

DigitChars == {ByteChars[n + 1] : n \in 48..57}
LetterChars == {ByteChars[n + 1] : n \in (65..90) \cup (97..122)}

\* validOptionalPort: nothing, or a colon and digits
InvalidPort(port) ==
    port # <<>> /\ (port[1] # ":" \/ \E j \in 2..Len(port) : port[j] \notin DigitChars)
\* unescape in host mode fails: a percent sign that two hexadecimal digits do
\* not follow, the escape of a byte below 0x80 other than %25, or an ASCII
\* character that a host name cannot hold
InvalidHostText(s) ==
    \/ BadEscape(s)
    \/ \E i \in 1..Len(s) :
          /\ s[i] = "%"
          /\ unhex(s[i + 1]) < 8
          /\ SubSeq(s, i, i + 2) # <<"%", "2", "5">>
    \/ \E i \in 1..Len(s) :
          s[i] # "%" /\ s[i] \in ASCIIChars /\ s[i] \notin HostChars
\* unescape in zone mode fails: as in host mode, but an escape may stand for
\* %, for a space or for any character a host name can hold, and for no other
InvalidZoneText(s) ==
    \/ BadEscape(s)
    \/ \E i \in 1..Len(s) :
          /\ s[i] = "%"
          /\ SubSeq(s, i, i + 2) # <<"%", "2", "5">>
          /\ LET c == ByteChars[16 * unhex(s[i + 1]) + unhex(s[i + 2]) + 1]
             IN  c # " " /\ c \notin HostChars
    \/ \E i \in 1..Len(s) :
          s[i] # "%" /\ s[i] \in ASCIIChars /\ s[i] \notin HostChars
\* parseHost fails.  A host in brackets: the last ] must be there, followed
\* by nothing or a port, and a zone, from the first %25 to that bracket, is
\* unescaped in zone mode.  Any other host: its last colon starts the port.
\* The address between the brackets is not inspected, as in the Go release
\* go.mod names
InvalidHost(host) ==
    IF HasPrefix(host, <<"[">>)
    THEN LET i == LastIndex(host, "]")
             zone == StringsIndex(SubSeq(host, 1, i - 1), <<"%", "2", "5">>)
         IN  \/ i = 0
             \/ InvalidPort(SubSeq(host, i + 1, Len(host)))
             \/ IF zone # 0
                THEN \/ InvalidHostText(SubSeq(host, 1, zone - 1))
                     \/ InvalidZoneText(SubSeq(host, zone, i - 1))
                     \/ InvalidHostText(SubSeq(host, i, Len(host)))
                ELSE InvalidHostText(host)
    ELSE \/ LastIndex(host, ":") # 0
            /\ InvalidPort(SubSeq(host, LastIndex(host, ":"), Len(host)))
         \/ InvalidHostText(host)
\* parseAuthority fails: the host after the last @, the user information
\* before it
InvalidAuthority(authority) ==
    LET i == LastIndex(authority, "@")
        userinfo == SubSeq(authority, 1, i - 1)
    IN  \/ InvalidHost(SubSeq(authority, i + 1, Len(authority)))
        \/ i # 0 /\ \E j \in 1..Len(userinfo) : userinfo[j] \notin UserinfoChars
        \/ i # 0 /\ BadEscape(userinfo)

\* getScheme: the scheme, empty without one, what follows it, and whether
\* the URL starts with a colon.  A scheme is a letter followed by letters,
\* digits, +, - and ., and ends at a colon
getScheme(rawURL) ==
    LET stop == {i \in 1..Len(rawURL) :
                    \/ rawURL[i] \notin LetterChars \cup DigitChars \cup {"+", "-", "."}
                    \/ i = 1 /\ rawURL[i] \notin LetterChars}
        i == CHOOSE n \in stop : \A m \in stop : n <= m
    IN  IF stop = {} \/ rawURL[i] # ":"
        THEN [err |-> FALSE, scheme |-> <<>>, rest |-> rawURL]
        ELSE IF i = 1 THEN [err |-> TRUE, scheme |-> <<>>, rest |-> <<>>]
        ELSE [err |-> FALSE, scheme |-> SubSeq(rawURL, 1, i - 1),
              rest |-> SubSeq(rawURL, i + 1, Len(rawURL))]

\* url.Parse: whether it returns an error, and the Path of the URL it
\* returns.  The fragment is cut at the first #; of what precedes, the scheme
\* is taken, the query is cut at the first ? and never inspected; after //
\* the authority ends at the first slash; the path is what follows,
\* unescaped.  With a scheme and no leading slash the URL is opaque and has
\* no path.  An error for a control character before the fragment, a colon
\* at the start, a colon in the first segment of a URL without scheme or
\* leading slash, an invalid authority, or a percent sign in the path or the
\* fragment that two hexadecimal digits do not follow
URLParse(rawURL) ==
    LET hash == IndexOrEnd(rawURL, "#")
        u == SubSeq(rawURL, 1, hash - 1)
        frag == SubSeq(rawURL, hash + 1, Len(rawURL))
        sch == getScheme(u)
        rest == SubSeq(sch.rest, 1, IndexOrEnd(sch.rest, "?") - 1)
        rooted == HasPrefix(rest, <<"/">>)
        opaque == ~rooted /\ sch.scheme # <<>>
        hasAuthority == /\ HasPrefix(rest, <<"/", "/">>)
                        /\ sch.scheme # <<>> \/ ~HasPrefix(rest, <<"/", "/", "/">>)
        afterSlashes == SubSeq(rest, 3, Len(rest))
        slash == IndexOrEnd(afterSlashes, "/")
        authority == SubSeq(afterSlashes, 1, slash - 1)
        path == IF hasAuthority THEN SubSeq(afterSlashes, slash, Len(afterSlashes))
                ELSE rest
        segment == SubSeq(rest, 1, IndexOrEnd(rest, "/") - 1)
        err == \/ \E i \in 1..Len(u) : u[i] \in ControlChars
               \/ sch.err
               \/ ~rooted /\ sch.scheme = <<>> /\ \E i \in 1..Len(segment) : segment[i] = ":"
               \/ ~opaque /\ hasAuthority /\ InvalidAuthority(authority)
               \/ ~opaque /\ BadEscape(path)
               \/ BadEscape(frag)
    IN  [err |-> err,
         Path |-> IF err \/ opaque THEN <<>> ELSE Unescaped(path)]

\* strings.TrimSuffix(s, "/")
TrimSuffixSlash(s) ==
    IF s # <<>> /\ s[Len(s)] = "/" THEN SubSeq(s, 1, Len(s) - 1) ELSE s

\* the expansion with the default of every variable, enumerated or not
RECURSIVE ExpandDefaultsOnly(_, _)
ExpandDefaultsOnly(endpoints, variables) ==
    IF variables = <<>> THEN endpoints
    ELSE LET key == <<"{">> \o variables[1][1] \o <<"}">>
         IN  ExpandDefaultsOnly([i \in 1..Len(endpoints) |->
                                    StringsReplaceAll(endpoints[i], key,
                                                      variables[1][2].Default)],
                                Tail(variables))
\* the endpoints of a server: each variable in turn replaced in every
\* endpoint, by its default without enumeration, else by each value of the
\* enumeration, the endpoints repeated once for each value
RECURSIVE ExpandVariables(_, _)
ExpandVariables(endpoints, variables) ==
    IF variables = <<>> THEN endpoints
    ELSE LET key == <<"{">> \o variables[1][1] \o <<"}">>
             v == variables[1][2]
             n == Len(endpoints)
             next == IF v.Enum = <<>>
                     THEN [i \in 1..n |-> StringsReplaceAll(endpoints[i], key, v.Default)]
                     ELSE [m \in 1..(Len(v.Enum) * n) |->
                              StringsReplaceAll(endpoints[((m - 1) % n) + 1], key,
                                                v.Enum[((m - 1) \div n) + 1])]
         IN  ExpandVariables(next, Tail(variables))

\* fmt.Sprintf("%s://%s", location.Scheme, location.Host)
PrefixOf(location) == location.Scheme \o <<":", "/", "/">> \o location.Host

\* getBasePath: the path returned and whether an error is returned
RECURSIVE getBasePath(_, _)
getBasePath(location, servers) ==
    IF servers = <<>> THEN [path |-> location.Path, err |-> FALSE]
    ELSE LET srv == Head(servers)
             endpoints == ExpandVariables(<<srv.URL>>, srv.Variables)
             hits == {i \in 1..Len(endpoints) : HasPrefix(endpoints[i], PrefixOf(location))}
         IN  IF HasPrefix(srv.URL, <<"/">>) THEN [path |-> srv.URL, err |-> FALSE]
             ELSE IF hits = {} THEN getBasePath(location, Tail(servers))
             ELSE LET first == CHOOSE i \in hits : \A j \in hits : i <= j
                      base == URLParse(endpoints[first])
                  IN  IF base.err THEN [path |-> <<>>, err |-> TRUE]
                      ELSE [path |-> TrimSuffixSlash(base.Path), err |-> FALSE]

Server(url, variables) == [URL |-> url, Variables |-> variables]
Variable(enum, default) == [Enum |-> enum, Default |-> default]
VarEnv == <<"e", "n", "v">>
VarVer == <<"v", "e", "r">>

\* the servers of a document
ServerChoices == {
    Server(<<"/", "r", "e", "l", "/">>, <<>>),
    Server(<<"h", "t", "t", "p", "s", ":", "/", "/", "a", "p", "i", ".", "e", "x", "a", "m", "p", "l", "e", ".", "c", "o", "m", "/", "v", "1", "/">>, <<>>),
    Server(<<"h", "t", "t", "p", "s", ":", "/", "/", "a", "p", "i", ".", "e", "x", "a", "m", "p", "l", "e", ".", "c", "o", "m">>, <<>>),
    Server(<<"h", "t", "t", "p", "s", ":", "/", "/", "o", "t", "h", "e", "r", ".", "e", "x", "a", "m", "p", "l", "e", ".", "c", "o", "m", "/", "o">>, <<>>),
    Server(<<"h", "t", "t", "p", "s", ":", "/", "/", "a", "p", "i", ".", "e", "x", "a", "m", "p", "l", "e", ".", "c", "o", "m", ".", "a", "u", "/", "a", "u">>, <<>>),
    Server(<<"h", "t", "t", "p", "s", ":", "/", "/", "a", "p", "i", ".", "e", "x", "a", "m", "p", "l", "e", ".", "c", "o", "m", "/", "%", "z", "z">>, <<>>),
    Server(<<"h", "t", "t", "p", "s", ":", "/", "/", "a", "p", "i", ".", "e", "x", "a", "m", "p", "l", "e", ".", "c", "o", "m", "/", "a", "%", "2", "0", "b", "/">>, <<>>),
    Server(<<"h", "t", "t", "p", "s", ":", "/", "/", "a", "p", "i", ".", "e", "x", "a", "m", "p", "l", "e", ".", "c", "o", "m", "/", "v", "1", "?", "x", "=", "%", "z", "z">>, <<>>),
    Server(<<"h", "t", "t", "p", "s", ":", "/", "/", "a", "p", "i", ".", "e", "x", "a", "m", "p", "l", "e", ".", "c", "o", "m", "/", "v", "1", "#">> \o <<ByteChars[2]>>, <<>>),
    Server(<<"h", "t", "t", "p", "s", ":", "/", "/", "[", ":", ":", "1", "]", "/", "v", "1">>, <<>>),
    Server(<<":", "/", "/", "a", "p", "i", ".", "e", "x", "a", "m", "p", "l", "e", ".", "c", "o", "m", "/", "p">>, <<>>),
    Server(<<"h", "t", "t", "p", "s", ":", "/", "/", "{", "e", "n", "v", "}", ".", "e", "x", "a", "m", "p", "l", "e", ".", "c", "o", "m", "/", "{", "v", "e", "r", "}">>,
           <<<<VarEnv, Variable(<<<<"s", "t", "a", "g", "i", "n", "g">>, <<"a", "p", "i">>>>, <<"s", "t", "a", "g", "i", "n", "g">>)>>,
             <<VarVer, Variable(<<>>, <<"v", "2">>)>>>>),
    Server(<<"h", "t", "t", "p", "s", ":", "/", "/", "{", "e", "n", "v", "}", ".", "e", "x", "a", "m", "p", "l", "e", ".", "c", "o", "m", "/", "{", "v", "e", "r", "}", "/", "x">>,
           <<<<VarEnv, Variable(<<<<"s", "t", "a", "g", "i", "n", "g">>, <<"a", "p", "i">>>>, <<"s", "t", "a", "g", "i", "n", "g">>)>>,
             <<VarVer, Variable(<<<<"v", "1">>, <<"v", "3">>>>, <<"v", "3">>)>>>>)
}
MaxServers == 2
ServerLists == UNION {[1..n -> ServerChoices] : n \in 0..MaxServers}

\* the configured base, as url.Parse returns it: with the host name of the
\* servers, with another, with an address in brackets, without scheme
Locations == {
    [Scheme |-> <<"h", "t", "t", "p", "s">>, Host |-> <<"a", "p", "i", ".", "e", "x", "a", "m", "p", "l", "e", ".", "c", "o", "m">>, Path |-> <<"/", "b", "a", "s", "e">>],
    [Scheme |-> <<"h", "t", "t", "p", "s">>, Host |-> <<"s", "t", "a", "g", "i", "n", "g", ".", "e", "x", "a", "m", "p", "l", "e", ".", "c", "o", "m">>, Path |-> <<>>],
    [Scheme |-> <<"h", "t", "t", "p">>, Host |-> <<"a", "p", "i", ".", "e", "x", "a", "m", "p", "l", "e", ".", "c", "o", "m">>, Path |-> <<"/">>],
    [Scheme |-> <<"h", "t", "t", "p", "s">>, Host |-> <<"[", ":", ":", "1", "]">>, Path |-> <<"/", "s", "i", "x">>],
    [Scheme |-> <<>>, Host |-> <<"a", "p", "i", ".", "e", "x", "a", "m", "p", "l", "e", ".", "c", "o", "m">>, Path |-> <<"/", "n", "o", "n", "e">>]
}

BasePathInit ==
    /\ NoResponse
    /\ Idle
    /\ configs = EmptyMap
    /\ mdest = Nil /\ msrc = Nil /\ mres = Nil /\ mcount = 0
    /\ found = Nil /\ prevFound = Nil
    /\ \E location \in Locations, servers \in ServerLists :
          args = Ptr([fn |-> "getBasePath", location |-> location, servers |-> servers])
    /\ ret = Nil

GetBasePath ==
    /\ args # Nil /\ ret = Nil
    /\ args[1].fn = "getBasePath"
    /\ ret' = Ptr(getBasePath(args[1].location, args[1].servers))
    /\ UNCHANGED <<args, startupVars, mergeVars, lookupVars, saveVars, linkVars>>

BasePathNext == GetBasePath

SpecBasePath == BasePathInit /\ [][BasePathNext]_vars

Init ==
    /\ NoResponse
    /\ StartupInit
    /\ saved = Nil
    /\ mdest = Nil /\ msrc = Nil /\ mres = Nil /\ mcount = 0
    /\ found = Nil /\ prevFound = Nil
    /\ args = Nil /\ ret = Nil

Spec == Init /\ [][Next]_vars

(***************************************************************************)
(* Vocabulary of the properties                                            *)
(***************************************************************************)
NoDuplicates(seq) == \A i, j \in 1..Len(seq) : i # j => seq[i] # seq[j]

HasProfile(cfg, p) ==
    /\ cfg.Profiles # Nil
    /\ p \in DOMAIN cfg.Profiles[1]
    /\ cfg.Profiles[1][p] # Nil
ProfileOf(cfg, p) == cfg.Profiles[1][p][1]

\* the i-th file read, and what it holds for API k
PathRead(i) == loaded[i][1]
ContentRead(i) == LocalFileContents[loaded[i][2]]
Declares(i, k) == ContentRead(i).ok /\ k \in MergedKeys(ContentRead(i))
EntryRead(i, k) == ContentRead(i).apis[k][1]

GlobalDeclares(k) ==
    /\ gfile.exists /\ gfile.ok
    /\ k \in DOMAIN gfile.apis /\ k # "$schema" /\ gfile.apis[k] # Nil

LoopDone == pc = "load" /\ idx > Len(localConfigPaths)
WalkedTree == pc \in {"load", "done"} /\ ~(rshConfig # NoStr /\ rshConfig \in fsFiles)

\* the two candidate paths of the directory d levels below the root
JSONPaths == [d \in 0..MaxDepth |->
                 (IF d = 0 THEN <<>> ELSE DirAt(d)) \o <<"/">> \o RestishJSON]
YAMLPaths == [d \in 0..MaxDepth |->
                 (IF d = 0 THEN <<>> ELSE DirAt(d)) \o <<"/">> \o RestishYAML]
JSONIn(d) == JSONPaths[d]
YAMLIn(d) == YAMLPaths[d]
\* a config path without its file name: the directory, with a closing "/"
DirSlash(path) == SubSeq(path, 1, Len(path) - Len(RestishJSON))

\* the files the walk must collect, root first
RECURSIVE ExpectedFrom(_)
ExpectedFrom(d) ==
    IF d > MaxDepth THEN <<>>
    ELSE (IF JSONIn(d) \in fsFiles THEN <<JSONIn(d)>>
          ELSE IF YAMLIn(d) \in fsFiles THEN <<YAMLIn(d)>>
          ELSE <<>>) \o ExpectedFrom(d + 1)

(***************************************************************************)
(* C1: when a global entry for an API and a local override for the same    *)
(* API and profile are loaded, the resulting profile's headers hold every  *)
(* key of either layer: the local value for a key the local file sets, the *)
(* global value for a key only the global entry sets.                      *)
(***************************************************************************)
C1_GlobalAndLocalHeadersMerged ==
    pc = "done" =>
        \A k \in DOMAIN configs : \A p \in {"default", "prod"} :
            (/\ GlobalDeclares(k)
             /\ HasProfile(gfile.apis[k][1], p)
             /\ Len(loaded) = 1 /\ Declares(1, k)
             /\ HasProfile(EntryRead(1, k), p))
            => LET g == ProfileOf(gfile.apis[k][1], p).Headers
                   l == ProfileOf(EntryRead(1, k), p).Headers
               IN  /\ HasProfile(configs[k], p)
                   /\ \A h \in DOMAIN g \cup DOMAIN l :
                        /\ h \in DOMAIN ProfileOf(configs[k], p).Headers
                        /\ ProfileOf(configs[k], p).Headers[h] =
                               IF h \in DOMAIN l THEN l[h] ELSE g[h]

(***************************************************************************)
(* C4: discovery returns the files found between the working directory and *)
(* the root ordered root first, they are read and merged in that order,    *)
(* and after startup a field that several local files set for an API has,  *)
(* in the registry, the value of the file closest to the working           *)
(* directory.  A file sets the flag of a TLS block it holds.               *)
(***************************************************************************)
\* i is the file read from the directory closest to the working directory
Closest(i, S) == i \in S /\ \A j \in S : Len(PathRead(j)) <= Len(PathRead(i))

\* got holds the value Val of the closest file whose entry for k satisfies Sets
CloserWins(k, Sets(_), Val(_), got) ==
    \A i \in 1..Len(loaded) :
        Closest(i, {j \in 1..Len(loaded) : Declares(j, k) /\ Sets(EntryRead(j, k))})
            => got = Ptr(Val(EntryRead(i, k)))

\* the fields of a registry entry, Nil for one that is absent
CertOf(cfg) == IF cfg.TLS = Nil THEN Nil ELSE Ptr(cfg.TLS[1].Cert)
InsecureOf(cfg) == IF cfg.TLS = Nil THEN Nil ELSE Ptr(cfg.TLS[1].InsecureSkipVerify)
ProfileBaseOf(cfg, p) == IF HasProfile(cfg, p) THEN Ptr(ProfileOf(cfg, p).Base) ELSE Nil
HeaderOf(cfg, p, h) ==
    IF HasProfile(cfg, p) /\ h \in DOMAIN ProfileOf(cfg, p).Headers
    THEN Ptr(ProfileOf(cfg, p).Headers[h]) ELSE Nil
QueryOf(cfg, p, q) ==
    IF HasProfile(cfg, p) /\ q \in DOMAIN ProfileOf(cfg, p).Query
    THEN Ptr(ProfileOf(cfg, p).Query[q]) ELSE Nil

C4_RootFirstCloserWins ==
    /\ WalkedTree /\ pc = "load" =>
          /\ \A i, j \in 1..Len(localConfigPaths) :
                i < j => /\ Len(localConfigPaths[i]) < Len(localConfigPaths[j])
                         /\ HasPrefix(localConfigPaths[j], DirSlash(localConfigPaths[i]))
          /\ \A i \in 1..Len(loaded) : PathRead(i) = localConfigPaths[i]
    /\ WalkedTree /\ pc = "done" =>
          \A k \in DOMAIN configs :
              /\ CloserWins(k, LAMBDA e : e.Base # NoStr,
                               LAMBDA e : e.Base, Ptr(configs[k].Base))
              /\ CloserWins(k, LAMBDA e : e.OperationBase # NoStr,
                               LAMBDA e : e.OperationBase, Ptr(configs[k].OperationBase))
              /\ CloserWins(k, LAMBDA e : e.TLS # Nil /\ e.TLS[1].Cert # "",
                               LAMBDA e : e.TLS[1].Cert, CertOf(configs[k]))
              /\ CloserWins(k, LAMBDA e : e.TLS # Nil,
                               LAMBDA e : e.TLS[1].InsecureSkipVerify, InsecureOf(configs[k]))
              /\ \A p \in {"default", "prod"} :
                  /\ CloserWins(k, LAMBDA e : HasProfile(e, p) /\ ProfileOf(e, p).Base # NoStr,
                                   LAMBDA e : ProfileOf(e, p).Base,
                                   ProfileBaseOf(configs[k], p))
                  /\ \A h \in {"a", "b"} :
                        CloserWins(k, LAMBDA e : HasProfile(e, p)
                                                 /\ h \in DOMAIN ProfileOf(e, p).Headers,
                                      LAMBDA e : ProfileOf(e, p).Headers[h],
                                      HeaderOf(configs[k], p, h))
                  /\ CloserWins(k, LAMBDA e : HasProfile(e, p)
                                              /\ "q" \in DOMAIN ProfileOf(e, p).Query,
                                   LAMBDA e : ProfileOf(e, p).Query["q"],
                                   QueryOf(configs[k], p, "q"))

\* the same fields, read when the loop over the local files ends, before the
\* registry is decoded again from the global store: the flag left aside,
\* each has the value of the closest file
CloserWinsWhenLoopEnds ==
    WalkedTree /\ LoopDone =>
        \A k \in DOMAIN configs :
            /\ CloserWins(k, LAMBDA e : e.Base # NoStr,
                             LAMBDA e : e.Base, Ptr(configs[k].Base))
            /\ CloserWins(k, LAMBDA e : e.OperationBase # NoStr,
                             LAMBDA e : e.OperationBase, Ptr(configs[k].OperationBase))
            /\ CloserWins(k, LAMBDA e : e.TLS # Nil /\ e.TLS[1].Cert # "",
                             LAMBDA e : e.TLS[1].Cert, CertOf(configs[k]))
            /\ \A p \in {"default", "prod"} :
                /\ CloserWins(k, LAMBDA e : HasProfile(e, p) /\ ProfileOf(e, p).Base # NoStr,
                                 LAMBDA e : ProfileOf(e, p).Base,
                                 ProfileBaseOf(configs[k], p))
                /\ \A h \in {"a", "b"} :
                      CloserWins(k, LAMBDA e : HasProfile(e, p)
                                               /\ h \in DOMAIN ProfileOf(e, p).Headers,
                                    LAMBDA e : ProfileOf(e, p).Headers[h],
                                    HeaderOf(configs[k], p, h))

(***************************************************************************)
(* C5: in every directory visited at most one config file is collected:    *)
(* .restish.json when it exists, .restish.yaml only when .restish.json     *)
(* does not; a directory with neither contributes nothing and the walk     *)
(* goes on to its parent.                                                  *)
(***************************************************************************)
C5_OneFilePerDirectoryJSONFirst ==
    WalkedTree =>
        /\ Range(localConfigPaths) \subseteq
               {JSONIn(d) : d \in 0..MaxDepth} \cup {YAMLIn(d) : d \in 0..MaxDepth}
        /\ \A d \in 0..MaxDepth :
              /\ (JSONIn(d) \in Range(localConfigPaths)) <=> (JSONIn(d) \in fsFiles)
              /\ (YAMLIn(d) \in Range(localConfigPaths))
                     <=> (YAMLIn(d) \in fsFiles /\ JSONIn(d) \notin fsFiles)
              /\ Cardinality({i \in 1..Len(localConfigPaths) :
                               localConfigPaths[i] \in {JSONIn(d), YAMLIn(d)}}) <= 1

\* the working directory holds both files, its parent none, the root a YAML file
C5_Witness ==
    /\ WalkedTree
    /\ {JSONIn(MaxDepth), YAMLIn(MaxDepth)} \subseteq fsFiles
    /\ JSONIn(MaxDepth - 1) \notin fsFiles /\ YAMLIn(MaxDepth - 1) \notin fsFiles
    /\ YAMLIn(0) \in fsFiles /\ JSONIn(0) \notin fsFiles
    /\ YAMLIn(0) \in Range(localConfigPaths)
    /\ JSONIn(MaxDepth) \in Range(localConfigPaths)
    /\ YAMLIn(MaxDepth) \notin Range(localConfigPaths)

(***************************************************************************)
(* C6 as stated: when an explicit override path is supplied, the discovery *)
(* result is exactly that one path.                                        *)
(***************************************************************************)
C6_OverrideAlwaysReplacesWalk ==
    (pc \in {"load", "done"} /\ rshConfig # NoStr) => localConfigPaths = <<rshConfig>>

(***************************************************************************)
(* C6 amended: when an explicit override path is supplied and the file     *)
(* exists, the discovery result is exactly that one path and no file found *)
(* by walking is loaded; when the supplied path does not exist, discovery  *)
(* walks the tree as if no override had been supplied.                     *)
(***************************************************************************)
C6_ExistingOverrideReplacesWalk ==
    (pc \in {"load", "done"} /\ rshConfig # NoStr) =>
        IF rshConfig \in fsFiles
        THEN /\ localConfigPaths = <<rshConfig>>
             /\ \A i \in 1..Len(loaded) : PathRead(i) = rshConfig
        ELSE localConfigPaths = ExpectedFrom(0)

\* the override file exists next to a tree full of config files, and it
\* alone was loaded
C6_Witness ==
    /\ pc = "done"
    /\ rshConfig # NoStr /\ rshConfig \in fsFiles
    /\ TreeFiles \subseteq fsFiles
    /\ Len(loaded) = 1 /\ PathRead(1) = rshConfig

(***************************************************************************)
(* C7: when a local config file is loaded, every spec-file entry that is a *)
(* relative path is replaced by that path joined to the directory of the   *)
(* declaring file, entries that are http:// or https:// URLs or absolute   *)
(* paths stay as written, and number and order of the entries are kept.    *)
(***************************************************************************)
C7_RelativeSpecFilesResolved ==
    pc = "load" =>
        \A k \in DOMAIN configs :
            (k \in DOMAIN localConfigSources /\ Len(localConfigSources[k]) = 1) =>
                \A i \in 1..Len(loaded) :
                    Declares(i, k) =>
                        LET raw == EntryRead(i, k).SpecFiles
                            got == configs[k].SpecFiles
                            dir == Dir(PathRead(i))
                        IN  /\ Len(got) = Len(raw)
                            /\ \A n \in 1..Len(raw) :
                                 IF \/ HasPrefix(raw[n], HTTPPrefix)
                                    \/ HasPrefix(raw[n], HTTPSPrefix)
                                    \/ (raw[n] # <<>> /\ raw[n][1] = "/")
                                 THEN got[n] = raw[n]
                                 ELSE got[n] = Join(dir, raw[n])

\* a file in the working directory declared a relative, an absolute, an
\* http:// and an https:// location, and the relative one now lies in the
\* working directory
C7_Witness ==
    /\ pc = "load"
    /\ "foo" \in DOMAIN localConfigSources
    /\ Len(localConfigSources["foo"]) = 1
    /\ \E i \in 1..Len(loaded) :
          /\ Declares(i, "foo")
          /\ Dir(PathRead(i)) = Cwd
          /\ EntryRead(i, "foo").SpecFiles = <<SpecRel, SpecAbs, SpecHTTP>>
          /\ configs["foo"].SpecFiles = <<Cwd \o <<"/">> \o SpecRel, SpecAbs, SpecHTTP>>

(***************************************************************************)
(* C8: startup never completes with two registered APIs that have the same *)
(* base: when two APIs of the registry built from the global and local     *)
(* files share a base, initAPIConfig panics naming that base; otherwise    *)
(* the registered bases are pairwise distinct after startup.               *)
(***************************************************************************)
Registered == pc = "done" \/ (pc = "panic" /\ panicked[1].why = "duplicate")

C8_NoTwoAPIsWithOneBase ==
    /\ pc = "done" =>
          \A j, k \in DOMAIN configs : j # k => configs[j].Base # configs[k].Base
    /\ (pc = "panic" /\ panicked[1].why = "duplicate") =>
          \E j, k \in DOMAIN configs :
              /\ j # k
              /\ configs[j].Base = panicked[1].base
              /\ configs[k].Base = panicked[1].base

\* a global API and a local API have the same base and startup panicked
C8_Witness ==
    /\ pc = "panic" /\ panicked[1].why = "duplicate"
    /\ GlobalDeclares("baz")
    /\ "foo" \in DOMAIN configs /\ "baz" \in DOMAIN configs
    /\ configs["foo"].Base = configs["baz"].Base
    /\ panicked[1].base = BaseAB

(***************************************************************************)
(* C2: when a later layer that sets a non-empty base is merged into an     *)
(* existing API entry the merged base is the later layer's base; when the  *)
(* later layer sets no base the earlier base is unchanged.                 *)
(***************************************************************************)
C2_LaterBaseReplaces ==
    mcount >= 1 =>
        /\ msrc.Base # NoStr => mres.Base = msrc.Base
        /\ msrc.Base = NoStr => mres.Base = mdest.Base

\* both layers set a base, the two differ, and the later one is the result
C2_Witness ==
    /\ mcount = 1
    /\ mdest.Base = BaseA /\ msrc.Base = BaseAB
    /\ mres.Base = BaseAB

(***************************************************************************)
(* C3: after a later layer's spec-file list is merged into an earlier      *)
(* layer's list (itself free of duplicates), no spec-file value occurs     *)
(* more than once in the merged list.                                      *)
(***************************************************************************)
C3_MergedSpecFilesDeduplicated ==
    (mcount >= 1 /\ Len(msrc.SpecFiles) > 0 /\ NoDuplicates(mdest.SpecFiles))
        => NoDuplicates(mres.SpecFiles)

(***************************************************************************)
(* C9: findAPI returns the earliest registered API whose effective base is *)
(* a prefix of the URI, so the same registry, filter, profile and URI      *)
(* always give the same result.                                            *)
(***************************************************************************)
C9_SameQuerySameResult ==
    (found # Nil /\ prevFound # Nil) =>
        ((/\ found[1].uri = prevFound[1].uri
          /\ found[1].apiName = prevFound[1].apiName
          /\ found[1].profile = prevFound[1].profile)
            => found[1].name = prevFound[1].name)

(***************************************************************************)
(* C10 as stated: the base used for prefix matching is the base of the     *)
(* API's profile of the active name if that profile exists and defines a   *)
(* base, and the API's own base in every other case; an API is returned    *)
(* if and only if it passes the name filter and that base is a prefix of   *)
(* the URI.                                                                *)
(***************************************************************************)
PassesFilter(n, q) == q.apiName # "" => n = q.apiName

StatedBase(cfg, profile) ==
    IF HasProfile(cfg, profile) /\ ProfileOf(cfg, profile).Base # NoStr
    THEN ProfileOf(cfg, profile).Base
    ELSE cfg.Base

C10_ProfileBaseElseOwnBase ==
    found # Nil =>
        LET q == found[1]
            passes(n) == PassesFilter(n, q)
                            /\ HasPrefix(q.uri, StatedBase(configs[n], q.profile))
        IN  /\ q.name # "" => (q.name \in DOMAIN configs /\ passes(q.name))
            /\ q.name = "" => \A n \in DOMAIN configs : ~passes(n)

(***************************************************************************)
(* C10 amended: with the default profile active the base used for prefix   *)
(* matching is always the API's own base; with another profile active an   *)
(* API that lacks that profile is never returned, and for an API that has  *)
(* it the base used is the profile's base if it defines one and the API's  *)
(* own base otherwise.  The API returned passes the name filter and has    *)
(* that base as a prefix of the URI, and none is returned only when no     *)
(* registered API does.                                                    *)
(***************************************************************************)
C10_EffectiveBaseOfFindAPI ==
    found # Nil =>
        LET q == found[1]
            passes(n) ==
                /\ PassesFilter(n, q)
                /\ IF q.profile = "default"
                   THEN HasPrefix(q.uri, configs[n].Base)
                   ELSE /\ HasProfile(configs[n], q.profile)
                        /\ HasPrefix(q.uri, StatedBase(configs[n], q.profile))
        IN  /\ q.name # "" => (q.name \in DOMAIN configs /\ passes(q.name))
            /\ q.name = "" => \A n \in DOMAIN configs : ~passes(n)

\* with profile prod active, an API was found by its profile's base although
\* its own base is no prefix of the URI
C10_Witness ==
    /\ found # Nil
    /\ found[1].profile = "prod"
    /\ found[1].name # ""
    /\ ProfileOf(configs[found[1].name], "prod").Base = BaseP
    /\ HasPrefix(found[1].uri, BaseP)
    /\ ~HasPrefix(found[1].uri, configs[found[1].name].Base)

(***************************************************************************)
(* validateProfile                                                         *)
(***************************************************************************)
Contains(s, sub) ==
    \E i \in 0..(Len(s) - Len(sub)) : SubSeq(s, i + 1, i + Len(sub)) = sub
HasSuffix(s, suffix) ==
    /\ Len(suffix) <= Len(s)
    /\ SubSeq(s, Len(s) - Len(suffix) + 1, Len(s)) = suffix

Validated == args # Nil /\ ret # Nil /\ args[1].fn = "validateProfile"
DeclaredIn(config) == IF config.Profiles = Nil THEN {} ELSE DOMAIN config.Profiles[1]

\* C11: validateProfile returns no error exactly when the requested profile
\* is "default" or is declared by the API; otherwise the error text names the
\* requested profile and the API and ends with all declared profile names,
\* in increasing order
C11_ValidateProfile ==
    Validated =>
        LET n == args[1].profileName
            a == args[1].configName
            declared == DeclaredIn(args[1].config)
            err == ret[1].err
        IN  /\ (err = Nil) <=> (n = DefaultName \/ n \in declared)
            /\ err # Nil =>
                /\ HasPrefix(err[1], MsgProfile \o n \o MsgNotFound \o a)
                /\ \E L \in Orders(declared) :
                      /\ \A i, j \in DOMAIN L : i < j => LessStr(L[i], L[j])
                      /\ HasSuffix(err[1], StringsJoin(L, MsgSep))
                      /\ \A i \in DOMAIN L : Contains(err[1], L[i])

\* "staging" requested on an API that declares only "prod": the error
\* contains "prod"
C11_Witness ==
    /\ Validated
    /\ args[1].profileName = <<"s", "t", "a", "g", "i", "n", "g">>
    /\ DeclaredIn(args[1].config) = {<<"p", "r", "o", "d">>}
    /\ ret[1].err # Nil
    /\ Contains(ret[1].err[1], <<"p", "r", "o", "d">>)

(***************************************************************************)
(* Save and SaveWithPrompt                                                 *)
(***************************************************************************)
\* the files read that hold an entry for API k, by position in the history
Contributing(k) == {i \in 1..Len(loaded) : Declares(i, k)}
LastOf(S) == CHOOSE i \in S : \A j \in S : j <= i

\* C12: Save writes one target, the contributing local file closest to the
\* working directory or, without one, the global registry; SaveWithPrompt
\* writes the only contributing file without a prompt and prompts exactly
\* when several files contributed, offering each of them and the global
\* registry
C12_SaveTargets ==
    saved # Nil =>
        LET k == saved[1].api
            C == Contributing(k)
            paths == {PathRead(i) : i \in C}
            written == saved[1].written
            options == saved[1].options
        IN  /\ Cardinality(written) = 1
            /\ C = {} => written = {GlobalStore} /\ ~saved[1].prompted
            /\ C # {} /\ saved[1].op = "Save" =>
                  /\ written = {PathRead(LastOf(C))}
                  /\ ~saved[1].prompted
                  /\ \A q \in paths : Len(q) <= Len(PathRead(LastOf(C)))
            /\ saved[1].op = "SaveWithPrompt" =>
                  /\ saved[1].prompted <=> Cardinality(C) > 1
                  /\ Cardinality(C) = 1 => written = paths
                  /\ saved[1].prompted =>
                        /\ Len(options) = Cardinality(C) + 1
                        /\ options[Len(options)] = GlobalConfigOption
                        /\ {Join(Cwd, options[j]) : j \in 1..(Len(options) - 1)} = paths
                        /\ written \subseteq paths \cup {GlobalStore}

\* Save of an API the global registry declares and every directory of the
\* tree overrides: the file of the working directory is written
C12_Witness ==
    /\ saved # Nil
    /\ saved[1].op = "Save"
    /\ GlobalDeclares(saved[1].api)
    /\ Cardinality(Contributing(saved[1].api)) = MaxDepth + 1
    /\ saved[1].written = {JSONIn(MaxDepth)}

(***************************************************************************)
(* Load failures                                                           *)
(***************************************************************************)
\* C13: startup completes only when the global registry file and every
\* discovered local config file could be read and parsed
C13_LoadFailureFatal ==
    pc = "done" =>
        /\ gfile.exists => gfile.ok
        /\ \A k \in DOMAIN gfile.apis : k = "$schema" \/ gfile.apis[k] # Nil
        /\ Len(loaded) = Len(localConfigPaths)
        /\ \A i \in 1..Len(loaded) : ContentRead(i).ok

(***************************************************************************)
(* Link strategies                                                         *)
(***************************************************************************)
ParsersDone == resolver # Nil /\ resolver.pos > Len(resolver.parsers)
\* the strategy that ran last
LastRan(name) ==
    /\ resolver # Nil /\ resolver.ran >= 1
    /\ resolver.parsers[resolver.ran] = name
\* whether the strategy that ran last returned an error
LastFailed == resolver.ranErr
\* what a strategy yields on the response when it is the only one
Alone(name) == ApplyParser(name, resp.Headers, resp.Body, NoLinks)
\* no strategy but this one finds anything in the response
OnlyApplies(name) ==
    \A n \in Range(DefaultParsers) \ {name} : Alone(n).links = NoLinks

\* C14: once ParseLinks has returned, every link a registered strategy finds
\* on its own is in the link set, whichever strategies returned an error, and
\* an error is returned, under the name of a strategy that fails, exactly
\* when one fails.  It holds in the runs where the loop goes on after an
\* error and fails in those where the loop is given up
C14_StrategyFailuresIsolated ==
    ParsersDone =>
        /\ \A i \in 1..Len(resolver.parsers) :
              LET found1 == Alone(resolver.parsers[i]).links
              IN  \A rel \in DOMAIN found1 :
                      /\ rel \in DOMAIN resp.Links
                      /\ Range(found1[rel]) \subseteq Range(resp.Links[rel])
        /\ IF \E i \in 1..Len(resolver.parsers) : Alone(resolver.parsers[i]).err
           THEN resolver.err # Nil /\ Alone(resolver.err[1]).err
           ELSE resolver.err = Nil

HeaderTable == [es \in HeaderEntrySeqs |-> RenderHeader(es)]
\* the URIs of the entries that carry rel, in header order
URIsFor(es, rel) ==
    LET with == SelectSeq(es, LAMBDA e : e.rel = rel)
    IN  [i \in 1..Len(with) |-> with[i].uri]

\* C15: after the header strategy, a header whose entries all have a
\* bracketed URI gives each relation the URIs of its entries in header
\* order; a header with an entry without one is an error and adds nothing
C15_LinkHeader ==
    LastRan("header") =>
        /\ \A es \in HeaderEntrySeqs :
              resp.Headers = Ptr(HeaderTable[es]) =>
                  IF \A i \in 1..Len(es) : es[i].bracketed
                  THEN /\ ~LastFailed
                       /\ DOMAIN resp.Links = {es[i].rel : i \in 1..Len(es)}
                       /\ \A rel \in DOMAIN resp.Links :
                              resp.Links[rel] = URIsFor(es, rel)
                  ELSE /\ LastFailed
                       /\ resp.Links = NoLinks
        /\ resp.Headers = Ptr(BadHeader) =>
              /\ LastFailed
              /\ resp.Links = NoLinks

\* </self>; rel="self", </foo>; rel="item", </bar>; rel="item"
C15_Witness ==
    /\ LastRan("header")
    /\ resp.Headers = Ptr(<<"<", "/", "s", "e", "l", "f", ">", ";", " ", "r", "e", "l", "=", "\"", "s", "e", "l", "f", "\"", ",", " ", "<", "/", "f", "o", "o", ">", ";", " ", "r", "e", "l", "=", "\"", "i", "t", "e", "m", "\"", ",", " ", "<", "/", "b", "a", "r", ">", ";", " ", "r", "e", "l", "=", "\"", "i", "t", "e", "m", "\"">>)
    /\ DOMAIN resp.Links = {KeySelf, RelItem}
    /\ resp.Links[KeySelf] = <<<<"/", "s", "e", "l", "f">>>>
    /\ resp.Links[RelItem] = <<<<"/", "f", "o", "o">>, <<"/", "b", "a", "r">>>>

\* the hrefs a value of _links stands for
HrefsOf(val) ==
    IF IsSeq(val)
    THEN Flatten([i \in 1..Len(val.v) |->
                    IF IsMap(val.v[i]) /\ IsStr(MapGet(val.v[i], KeyHref))
                    THEN <<MapGet(val.v[i], KeyHref).v>> ELSE <<>>])
    ELSE IF IsMap(val) /\ IsStr(MapGet(val, KeyHref))
    THEN <<MapGet(val, KeyHref).v>> ELSE <<>>
HasHALLinks(m) == IsMap(m) /\ IsMap(MapGet(m, KeyHALLinks))
HALRels(m) ==
    IF HasHALLinks(m)
    THEN {MapGet(m, KeyHALLinks).v[i][1].v : i \in 1..Len(MapGet(m, KeyHALLinks).v)}
    ELSE {}
RelHrefs(m, rel) ==
    IF HasHALLinks(m) THEN HrefsOf(MapGet(MapGet(m, KeyHALLinks), rel)) ELSE <<>>
BodyElements == IF IsSeq(resp.Body) THEN resp.Body.v ELSE <<resp.Body>>

\* C16: after the HAL strategy on a response without Link header, every
\* relation of _links but curies has the hrefs of its value, element after
\* element when the body is a sequence; curies is not in the link set, and
\* a null relation is no error
C16_HAL ==
    LastRan("hal") /\ resp.Headers = Nil =>
        LET rels == UNION {HALRels(BodyElements[i]) : i \in 1..Len(BodyElements)}
        IN  /\ ~LastFailed
            /\ KeyCuries \notin DOMAIN resp.Links
            /\ DOMAIN resp.Links \subseteq rels
            /\ \A rel \in rels \ {KeyCuries} :
                  LinksOf(resp.Links, rel) =
                      Flatten([i \in 1..Len(BodyElements) |-> RelHrefs(BodyElements[i], rel)])

\* two elements with self hrefs /one and /two
C16_Witness ==
    /\ LastRan("hal") /\ resp.Headers = Nil
    /\ IsSeq(resp.Body) /\ Len(resp.Body.v) = 2
    /\ resp.Links = [r \in {KeySelf} |-> <<<<"/", "o", "n", "e">>, <<"/", "t", "w", "o">>>>]

RECURSIVE IsSubseq(_, _)
IsSubseq(a, b) ==
    IF a = <<>> THEN TRUE
    ELSE IF b = <<>> THEN FALSE
    ELSE IF Head(a) = Head(b) THEN IsSubseq(Tail(a), Tail(b))
    ELSE IsSubseq(a, Tail(b))

SelfOf(m) == IF IsMap(m) /\ IsStr(MapGet(m, KeySelf)) THEN <<MapGet(m, KeySelf).v>> ELSE <<>>
\* the self-links of the elements of a collection
ElementSelfs(coll) == Flatten([j \in 1..Len(coll.v) |-> SelfOf(coll.v[j])])
\* the mappings with a string under "self" anywhere in a value
RECURSIVE SelfCount(_)
RECURSIVE SumOf(_)
SumOf(ns) == IF ns = <<>> THEN 0 ELSE Head(ns) + SumOf(Tail(ns))
SelfCount(value) ==
    IF IsMap(value)
    THEN Len(SelfOf(value)) + SumOf([i \in 1..Len(value.v) |-> SelfCount(value.v[i][2])])
    ELSE IF IsSeq(value) THEN SumOf([i \in 1..Len(value.v) |-> SelfCount(value.v[i])])
    ELSE 0
RECURSIVE TotalLinks(_)
TotalLinks(links) ==
    IF DOMAIN links = {} THEN 0
    ELSE LET r == CHOOSE x \in DOMAIN links : TRUE
         IN  Len(links[r]) + TotalLinks([x \in DOMAIN links \ {r} |-> links[x]])

\* the entries with a number as key: of the body and of the elements of its
\* collections
NumberedEntries ==
    LET top == resp.Body.v
        inner == Flatten([i \in 1..Len(top) |->
                    IF IsSeq(top[i][2])
                    THEN Flatten([j \in 1..Len(top[i][2].v) |->
                            IF IsMap(top[i][2].v[j]) THEN top[i][2].v[j].v ELSE <<>>])
                    ELSE <<>>])
    IN  SelectSeq(top \o inner, LAMBDA e : e[1].t = "num")

\* C17: after the heuristic strategy on a mapping where no other strategy
\* applies: a string under the top-level key self is the first link of
\* relation self; the self-links of the elements of a collection under key K
\* are links of relation K-item, in element order; there are as many links as
\* mappings with a string self, so a self that is not a string gives none;
\* the links below a number key are under the number written in decimal
C17_Heuristic ==
    LastRan("simple") /\ OnlyApplies("simple") /\ IsMap(resp.Body) =>
        /\ ~LastFailed
        /\ IsStr(MapGet(resp.Body, KeySelf)) =>
              /\ KeySelf \in DOMAIN resp.Links
              /\ resp.Links[KeySelf][1] = MapGet(resp.Body, KeySelf).v
        /\ \A i \in 1..Len(resp.Body.v) :
              IsStr(resp.Body.v[i][1]) /\ IsSeq(resp.Body.v[i][2]) =>
                  IsSubseq(ElementSelfs(resp.Body.v[i][2]),
                           LinksOf(resp.Links, resp.Body.v[i][1].v \o ItemSuffix))
        /\ TotalLinks(resp.Links) = SelfCount(resp.Body)
        /\ \A i \in 1..Len(NumberedEntries) :
              LET e == NumberedEntries[i]
              IN  SelfOf(e[2]) # <<>> =>
                      /\ e[1].v < 10
                      /\ <<Digits[e[1].v + 1]>> \in DOMAIN resp.Links
                      /\ SelfOf(e[2])[1] \in Range(resp.Links[<<Digits[e[1].v + 1]>>])

\* {self: /self, things: [{self: /foo}, {self: /bar}, {5: {self: /weird}}],
\*  other: {self: {foo: bar}}}
C17_Witness ==
    /\ LastRan("simple") /\ OnlyApplies("simple") /\ IsMap(resp.Body)
    /\ resp.Links = [r \in {KeySelf, <<"t", "h", "i", "n", "g", "s", "-", "i", "t", "e", "m">>, <<"5">>} |->
                        IF r = KeySelf THEN <<<<"/", "s", "e", "l", "f">>>>
                        ELSE IF r = <<"5">> THEN <<<<"/", "w", "e", "i", "r", "d">>>>
                        ELSE <<<<"/", "f", "o", "o">>, <<"/", "b", "a", "r">>>>]

(***************************************************************************)
(* openapiOperation: name, aliases, parameters                             *)
(***************************************************************************)
Compiled == args # Nil /\ ret # Nil /\ args[1].fn = "openapiOperation"
MethodAndPath == args[1].method \o <<"-">> \o StringsTrim(args[1].uriPath, {"/"})
IdGetWidget == <<"g", "e", "t", "W", "i", "d", "g", "e", "t">>

\* C18 as stated: the name is the override when there is one, else the
\* identifier in dash-case when the identifier is not empty, else the method
\* and path in dash-case
C18_NameByIdentifier ==
    Compiled =>
        ret[1].Name = IF args[1].op.ExtName # <<>> THEN args[1].op.ExtName
                      ELSE IF args[1].op.OperationId # <<>>
                      THEN Kebab(args[1].op.OperationId)
                      ELSE Kebab(MethodAndPath)

\* C18: the name is the override when there is one, else the identifier in
\* dash-case when that form is not empty, else the method and path in
\* dash-case; getWidget gives get-widget, GET /widgets/{id} without
\* identifier gives get-widgets-id
C18_NameByDashCase ==
    Compiled =>
        LET id == args[1].op.OperationId
            override == args[1].op.ExtName
        IN  /\ ret[1].Name = IF override # <<>> THEN override
                             ELSE IF Kebab(id) # <<>> THEN Kebab(id)
                             ELSE Kebab(MethodAndPath)
            /\ override = <<>> /\ id = IdGetWidget => ret[1].Name = <<"g", "e", "t", "-", "w", "i", "d", "g", "e", "t">>
            /\ override = <<>> /\ id = <<>> /\ args[1].method = <<"G", "E", "T">>
                   /\ args[1].uriPath = <<"/", "w", "i", "d", "g", "e", "t", "s", "/", "{", "i", "d", "}">>
                   => ret[1].Name = <<"g", "e", "t", "-", "w", "i", "d", "g", "e", "t", "s", "-", "i", "d">>

\* an identifier of separators only: the name is made of method and path
C18_Witness ==
    /\ Compiled
    /\ args[1].op.ExtName = <<>>
    /\ args[1].op.OperationId = <<"-">>
    /\ args[1].method = <<"G", "E", "T">> /\ args[1].uriPath = <<"/", "w", "i", "d", "g", "e", "t", "s", "/", "{", "i", "d", "}">>
    /\ ret[1].Name = <<"g", "e", "t", "-", "w", "i", "d", "g", "e", "t", "s", "-", "i", "d">>

\* C19 as stated: whichever rule chose the name, the slug of the identifier
\* is among the aliases when it is not empty and differs from the name, and
\* is not added when it equals the name
C19_LegacySlugAlias ==
    Compiled =>
        LET old == SlugMake(args[1].op.OperationId)
        IN  /\ old # <<>> /\ old # ret[1].Name => old \in Range(ret[1].Aliases)
            /\ old = ret[1].Name => ret[1].Aliases = args[1].op.ExtAliases

\* C19: without a name override, the slug of the identifier is appended to
\* the aliases of the extension when it is not empty and differs from the
\* name, and not otherwise; with an override the aliases are those of the
\* extension
C19_LegacySlugAliasWithoutOverride ==
    Compiled =>
        LET old == SlugMake(args[1].op.OperationId)
            given == args[1].op.ExtAliases
        IN  IF args[1].op.ExtName = <<>> /\ old # <<>> /\ old # ret[1].Name
            THEN ret[1].Aliases = Append(given, old)
            ELSE ret[1].Aliases = given

\* getWidget without override: named get-widget, alias getwidget
C19_Witness ==
    /\ Compiled
    /\ args[1].op.ExtName = <<>>
    /\ args[1].op.OperationId = IdGetWidget
    /\ ret[1].Name = <<"g", "e", "t", "-", "w", "i", "d", "g", "e", "t">>
    /\ ret[1].Aliases = Append(args[1].op.ExtAliases, <<"g", "e", "t", "w", "i", "d", "g", "e", "t">>)

AllCompiled == Range(ret[1].PathParams) \cup Range(ret[1].QueryParams)
                   \cup Range(ret[1].HeaderParams)
OpNames == {args[1].op.Parameters[i].Name : i \in 1..Len(args[1].op.Parameters)}
\* the parameters of the path whose name no parameter of the operation has
NonColliding == SelectSeq(args[1].path.Parameters, LAMBDA p : p.Name \notin OpNames)

\* C20 as stated: the compiled parameters are those of the operation and the
\* non-colliding, non-ignored ones of the path
C20_OperationParamsPlusPathParams ==
    Compiled =>
        AllCompiled = {CompiledParam(p) : p \in Range(args[1].op.Parameters)}
                        \cup {CompiledParam(p) : p \in {q \in Range(NonColliding) : ~q.Ignore}}

Located(p) == ~p.Ignore /\ p.In \in {"path", "query", "header"}

\* C20: the list of each location holds, in this order, the parameters of
\* the operation and then the non-colliding ones of the path, without those
\* marked ignored; parameters of another location are in no list, and a
\* parameter of the path whose name the operation uses is never compiled
C20_CombinedParams ==
    Compiled =>
        /\ \A in \in {"path", "query", "header"} :
              LET kept == SelectSeq(args[1].op.Parameters \o NonColliding,
                                    LAMBDA p : ~p.Ignore /\ p.In = in)
                  list == IF in = "path" THEN ret[1].PathParams
                          ELSE IF in = "query" THEN ret[1].QueryParams
                          ELSE ret[1].HeaderParams
              IN  list = [i \in 1..Len(kept) |-> CompiledParam(kept[i])]
        /\ AllCompiled =
              {CompiledParam(p) : p \in {q \in Range(args[1].op.Parameters) : Located(q)}}
                \cup {CompiledParam(p) : p \in {q \in Range(NonColliding) : Located(q)}}

\* id declared by the operation and by the path, q by the path only
C20_Witness ==
    /\ Compiled
    /\ args[1].op.Parameters = <<Parameter("id", "path", FALSE, "op id")>>
    /\ Len(args[1].path.Parameters) = 3
    /\ ret[1].PathParams = <<CompiledParam(Parameter("id", "path", FALSE, "op id"))>>
    /\ ret[1].QueryParams = <<CompiledParam(Parameter("q", "query", FALSE, "path q"))>>

(***************************************************************************)
(* openapiOperation: default and example of a parameter                    *)
(***************************************************************************)
\* the parameters of the operation that are compiled
Declared == {q \in Range(args[1].op.Parameters) : Located(q)}
SchemaDefault(q) == IF q.Schema # Nil THEN q.Schema[1].Default ELSE Nil
SchemaExample(q) == IF q.Schema # Nil THEN q.Schema[1].Example ELSE Nil
\* the compiled form of a parameter of the operation
CompiledOf(q) == CHOOSE c \in AllCompiled : c.Name = q.Name

\* C21 as stated: the example is the example of the parameter, else the
\* example of the schema, else the default of the schema; the default is the
\* default of the schema
C21_ExampleElseSchemaDefault ==
    Compiled =>
        \A q \in Declared :
            /\ CompiledOf(q).Default =
                  IF SchemaDefault(q) # Nil THEN Ptr(decodeYAML(SchemaDefault(q)[1]))
                  ELSE Nil
            /\ CompiledOf(q).Example =
                  IF q.Example # Nil THEN Ptr(decodeYAML(q.Example[1]))
                  ELSE IF SchemaExample(q) # Nil THEN Ptr(decodeYAML(SchemaExample(q)[1]))
                  ELSE IF SchemaDefault(q) # Nil THEN Ptr(decodeYAML(SchemaDefault(q)[1]))
                  ELSE Nil

\* C21: the example of a compiled parameter is the example of the parameter
\* when one is declared, else the example of the schema when one is
\* declared, else nil, never the default of the schema; its default is the
\* default of the schema, nil without one
C21_ExampleElseSchemaExample ==
    Compiled =>
        \A q \in Declared :
            /\ CompiledOf(q).Default =
                  IF SchemaDefault(q) # Nil THEN Ptr(decodeYAML(SchemaDefault(q)[1]))
                  ELSE Nil
            /\ CompiledOf(q).Example =
                  IF q.Example # Nil THEN Ptr(decodeYAML(q.Example[1]))
                  ELSE IF SchemaExample(q) # Nil THEN Ptr(decodeYAML(SchemaExample(q)[1]))
                  ELSE Nil

\* a parameter with a schema default and no example: default 10, no example
C21_Witness ==
    /\ Compiled
    /\ args[1].op.Parameters =
          <<SchemaParameter("limit", Ptr([Default |-> Ptr(NodeDefault), Example |-> Nil]), Nil)>>
    /\ args[1].path.Parameters = <<>>
    /\ ret[1].QueryParams = <<[Name |-> "limit", Description |-> "limit",
                               Default |-> Ptr(VNum(10)), Example |-> Nil]>>

(***************************************************************************)
(* openapiOperation: the response sections of the description              *)
(***************************************************************************)
Responses == args[1].op.Responses
\* the codes the operation declares a response for
DeclaredCodeSet ==
    {Responses.Codes[i][1] : i \in 1..Len(Responses.Codes)}
      \cup (IF Responses.Default # Nil THEN {CodeDefault} ELSE {})
\* the hashes of the schemas a code declares, the zero hash for no body
HashesOfCode(c) ==
    LET r == RespOf(Responses, c)
    IN  IF r.Content = <<>> THEN {ZeroHash}
        ELSE {IF r.Content[i][2] = Nil THEN ZeroHash ELSE Hash(r.Content[i][2][1]) :
                 i \in 1..Len(r.Content)}
CodesWith(h) == {c \in DeclaredCodeSet : h \in HashesOfCode(c)}
DeclaredHashes == UNION {HashesOfCode(c) : c \in DeclaredCodeSet}
\* a code that declares at most one content type
OneContentType(c) == Len(RespOf(Responses, c).Content) <= 1

\* the codes a heading lists, and whether it is written for one response
ListedCodes(section) == SplitOn(SplitOn(section.Heading, " ")[3], "/")
Singular(section) == SplitOn(section.Heading, " ")[2] = <<"R", "e", "s", "p", "o", "n", "s", "e">>
HashOfSection(section) ==
    IF section.Schema = Nil THEN ZeroHash ELSE Hash(section.Schema[1])
SectionsFor(long, h) == {i \in 1..Len(long) : HashOfSection(long[i]) = h}
Ascending(codes) ==
    \A i, j \in 1..Len(codes) : i < j => ~LessStr(codes[j], codes[i])

\* C22: every schema hash has one section; the heading of the section lists
\* the codes whose schema has that hash, and no other, in ascending order;
\* where each of them declares one content type the heading is those codes
\* joined, written for a single response when there is one code; 200 and
\* 201 with the same schema and 404 with another give the two sections
\* 200/201 and 404
C22_ResponseGrouping ==
    Compiled =>
        LET long == ret[1].Long
        IN  /\ Len(long) = Cardinality(DeclaredHashes)
            /\ \A h \in DeclaredHashes :
                  /\ Cardinality(SectionsFor(long, h)) = 1
                  /\ \A i \in SectionsFor(long, h) :
                        /\ Range(ListedCodes(long[i])) = CodesWith(h)
                        /\ Ascending(ListedCodes(long[i]))
                        /\ (\A c \in CodesWith(h) : OneContentType(c)) =>
                              /\ ListedCodes(long[i]) = SortStrings(CodesWith(h))
                              /\ Singular(long[i]) <=> Cardinality(CodesWith(h)) = 1
            /\ (/\ Responses.Default = Nil
                /\ DeclaredCodeSet = {<<"2", "0", "0">>, <<"2", "0", "1">>, <<"4", "0", "4">>}
                /\ HashesOfCode(<<"2", "0", "0">>) = {Hash(SchemaWidget)}
                /\ HashesOfCode(<<"2", "0", "1">>) = {Hash(SchemaWidget)}
                /\ HashesOfCode(<<"4", "0", "4">>) = {Hash(SchemaError)}
                /\ \A c \in DeclaredCodeSet : OneContentType(c))
               => [i \in 1..Len(long) |-> long[i].Heading] =
                     <<<<"#", "#", " ", "R", "e", "s", "p", "o", "n", "s", "e", "s", " ", "2", "0", "0", "/", "2", "0", "1", " ", "(", "a", "p", "p", "l", "i", "c", "a", "t", "i", "o", "n", "/", "j", "s", "o", "n", ")">>,
                       <<"#", "#", " ", "R", "e", "s", "p", "o", "n", "s", "e", " ", "4", "0", "4", " ", "(", "a", "p", "p", "l", "i", "c", "a", "t", "i", "o", "n", "/", "j", "s", "o", "n", ")">>>>

\* 404, 201 and 200 declared in this order, 200 and 201 with one schema in
\* two property orders: two sections, 200/201 and 404
C22_Witness ==
    /\ Compiled
    /\ Responses.Codes =
          <<<<<<"4", "0", "4">>, Response(<<<<MediaJSON, Ptr(SchemaError)>>>>, <<"e", "r", "r", "o", "r">>, <<>>)>>,
            <<<<"2", "0", "1">>, Response(<<<<MediaJSON, Ptr(SchemaWidgetReordered)>>>>, <<>>, <<>>)>>,
            <<<<"2", "0", "0">>, Response(<<<<MediaJSON, Ptr(SchemaWidget)>>>>, <<"o", "k">>, <<<<"e", "t", "a", "g">>, <<"a", "g", "e">>>>)>>>>
    /\ Responses.Default = Nil
    /\ Len(ret[1].Long) = 2
    /\ ret[1].Long[1].Heading = <<"#", "#", " ", "R", "e", "s", "p", "o", "n", "s", "e", "s", " ", "2", "0", "0", "/", "2", "0", "1", " ", "(", "a", "p", "p", "l", "i", "c", "a", "t", "i", "o", "n", "/", "j", "s", "o", "n", ")">>
    /\ ret[1].Long[1].Headers = <<<<"a", "g", "e">>, <<"e", "t", "a", "g">>>>
    /\ ret[1].Long[2].Heading = <<"#", "#", " ", "R", "e", "s", "p", "o", "n", "s", "e", " ", "4", "0", "4", " ", "(", "a", "p", "p", "l", "i", "c", "a", "t", "i", "o", "n", "/", "j", "s", "o", "n", ")">>
    /\ ret[1].Long[2].Text = <<"e", "r", "r", "o", "r">>

\* C29: two compilations of one operation give the response sections in the
\* same order, and no heading lists a code twice
C29_SectionsDeterministic ==
    Compiled =>
        /\ Len(ret) = 2 => ret[1].Long = ret[2].Long
        /\ \A k \in 1..Len(ret) : \A i \in 1..Len(ret[k].Long) :
              NoDuplicates(ListedCodes(ret[k].Long[i]))

(***************************************************************************)
(* getRequestInfo: the media type of the request body                      *)
(***************************************************************************)
RequestInfoDone == args # Nil /\ ret # Nil /\ args[1].fn = "getRequestInfo"
BodyContent ==
    IF args[1].op.RequestBody = Nil THEN <<>> ELSE args[1].op.RequestBody[1].Content
DeclaredTypes == {BodyContent[i][1] : i \in 1..Len(BodyContent)}
\* the declaration of a media type
ItemOf(mt) == (CHOOSE e \in Range(BodyContent) : e[1] = mt)[2]

\* C23: with a request body that declares a media type, the selected type
\* is a declared one that contains json when there is one, else a declared
\* one that contains yaml when there is one, else the first declared; the
\* schema and the examples returned are those of the selected type
C23_RequestMediaType ==
    (RequestInfoDone /\ BodyContent # <<>>) =>
        LET mt == ret[1].mt
        IN  /\ mt \in DeclaredTypes
            /\ IF \E t \in DeclaredTypes : StringsContains(t, ShortJSON)
               THEN StringsContains(mt, ShortJSON)
               ELSE IF \E t \in DeclaredTypes : StringsContains(t, ShortYAML)
               THEN StringsContains(mt, ShortYAML)
               ELSE mt = BodyContent[1][1]
            /\ ret[1].schema = ItemOf(mt).Schema
            /\ ret[1].examples = ExamplesOf(ItemOf(mt))

(***************************************************************************)
(* loadAutoConfig: the default-auth suggestion                             *)
(***************************************************************************)
AutoConfigDone == args # Nil /\ ret # Nil /\ args[1].fn = "loadAutoConfig"
\* the document carries the block
HasBlock == args[1].model.Extensions # Nil /\ args[1].model.Extensions[1].CLIConfig # Nil
Block == args[1].model.Extensions[1].CLIConfig[1]
\* the referenced scheme is declared
SchemeDeclared ==
    /\ args[1].model.Components # Nil
    /\ args[1].model.Components[1].SecuritySchemes # Nil
    /\ Block.Security \in DOMAIN args[1].model.Components[1].SecuritySchemes[1]
ReferencedScheme == args[1].model.Components[1].SecuritySchemes[1][Block.Security]
Suggested == ret[1].AutoConfig[1].Auth

\* C24: in the suggestion made from a declared scheme, a param set both by
\* the block and from the scheme has the value of the block, a param set
\* from the scheme only keeps that value, and a param of the block only is
\* added; there is no other param
C24_ExplicitParamsWin ==
    (AutoConfigDone /\ HasBlock /\ SchemeDeclared) =>
        LET derived == DerivedParams(ReferencedScheme)
            explicit == Block.Params
        IN  /\ ret[1].AutoConfig # Nil
            /\ DOMAIN Suggested.Params = DOMAIN derived \cup DOMAIN explicit
            /\ \A k \in DOMAIN explicit : Suggested.Params[k] = explicit[k]
            /\ \A k \in DOMAIN derived \ DOMAIN explicit : Suggested.Params[k] = derived[k]

\* an authorization code scheme and a block that sets token_url and
\* audience: token_url is the one of the block
C24_Witness ==
    /\ AutoConfigDone /\ HasBlock /\ SchemeDeclared
    /\ ReferencedScheme.Type = "oauth2"
    /\ Block.Params = ("token_url" :> "https://override.example.com/token")
                        @@ ("audience" :> "widgets")
    /\ Suggested.Name = AuthAuthorizationCode
    /\ Suggested.Params =
          ("client_id" :> "") @@ ("authorize_url" :> "https://auth.example.com/authorize")
            @@ ("token_url" :> "https://override.example.com/token")
            @@ ("audience" :> "widgets")

\* C30: for a document with the block loadAutoConfig does not panic; when
\* the security name is not that of a declared scheme, or the document has
\* no components, the suggestion has the security name of the block as auth
\* name and the params of the block as params
C30_AutoConfigNeverCrashes ==
    (AutoConfigDone /\ HasBlock) =>
        /\ ~ret[1].panic
        /\ ~SchemeDeclared =>
              /\ ret[1].AutoConfig # Nil
              /\ Suggested.Name = Block.Security
              /\ Suggested.Params = Block.Params

(***************************************************************************)
(* getBasePath: the base path of the operations                            *)
(***************************************************************************)
BasePathDone == args # Nil /\ ret # Nil /\ args[1].fn = "getBasePath"
Location == args[1].location
Servers == args[1].servers

\* the values a variable can be replaced by
ValuesOf(variable) ==
    IF variable.Enum = <<>> THEN {variable.Default} ELSE Range(variable.Enum)
\* the URL with each variable replaced according to an assignment
RECURSIVE Substituted(_, _, _)
Substituted(url, variables, assignment) ==
    IF variables = <<>> THEN url
    ELSE Substituted(StringsReplaceAll(url, <<"{">> \o variables[1][1] \o <<"}">>,
                                       assignment[1]),
                     Tail(variables), Tail(assignment))
\* the candidates of a server: the cross-product of the values
Candidates(srv) ==
    {Substituted(srv.URL, srv.Variables, a) :
        a \in {f \in [1..Len(srv.Variables) -> UNION {ValuesOf(srv.Variables[i][2]) :
                                                       i \in 1..Len(srv.Variables)}] :
                  \A i \in 1..Len(srv.Variables) : f[i] \in ValuesOf(srv.Variables[i][2])}}
\* scheme and host of an absolute URL, and whether they are those of the base
SchemeHostOf(url) ==
    LET parts == SplitOn(url, "/")
    IN  IF Len(parts) >= 3 THEN parts[1] \o <<"/", "/">> \o parts[3] ELSE <<>>
Matches(url) == SchemeHostOf(url) = PrefixOf(Location)
StartsWithBase(url) == HasPrefix(url, PrefixOf(Location))
Relative(srv) == HasPrefix(srv.URL, <<"/">>)
\* the candidates of a server in the order they are tried
Tried(srv) == ExpandVariables(<<srv.URL>>, srv.Variables)
FirstOf(S) == CHOOSE i \in S : \A j \in S : i <= j

\* what getBasePath returns for a candidate that decides, written out for
\* the servers without variables: the path unescaped and without closing
\* slash, the query and the fragment dropped, an error for an escape that
\* is none and for a URL that starts with a colon
Decided == <<
    <<<<"h", "t", "t", "p", "s", ":", "/", "/", "a", "p", "i", ".", "e", "x", "a", "m", "p", "l", "e", ".", "c", "o", "m", "/", "v", "1", "/">>,
      [path |-> <<"/", "v", "1">>, err |-> FALSE]>>,
    <<<<"h", "t", "t", "p", "s", ":", "/", "/", "a", "p", "i", ".", "e", "x", "a", "m", "p", "l", "e", ".", "c", "o", "m">>,
      [path |-> <<>>, err |-> FALSE]>>,
    <<<<"h", "t", "t", "p", "s", ":", "/", "/", "o", "t", "h", "e", "r", ".", "e", "x", "a", "m", "p", "l", "e", ".", "c", "o", "m", "/", "o">>,
      [path |-> <<"/", "o">>, err |-> FALSE]>>,
    <<<<"h", "t", "t", "p", "s", ":", "/", "/", "a", "p", "i", ".", "e", "x", "a", "m", "p", "l", "e", ".", "c", "o", "m", ".", "a", "u", "/", "a", "u">>,
      [path |-> <<"/", "a", "u">>, err |-> FALSE]>>,
    <<<<"h", "t", "t", "p", "s", ":", "/", "/", "a", "p", "i", ".", "e", "x", "a", "m", "p", "l", "e", ".", "c", "o", "m", "/", "%", "z", "z">>,
      [path |-> <<>>, err |-> TRUE]>>,
    <<<<"h", "t", "t", "p", "s", ":", "/", "/", "a", "p", "i", ".", "e", "x", "a", "m", "p", "l", "e", ".", "c", "o", "m", "/", "a", "%", "2", "0", "b", "/">>,
      [path |-> <<"/", "a", " ", "b">>, err |-> FALSE]>>,
    <<<<"h", "t", "t", "p", "s", ":", "/", "/", "a", "p", "i", ".", "e", "x", "a", "m", "p", "l", "e", ".", "c", "o", "m", "/", "v", "1", "?", "x", "=", "%", "z", "z">>,
      [path |-> <<"/", "v", "1">>, err |-> FALSE]>>,
    <<<<"h", "t", "t", "p", "s", ":", "/", "/", "[", ":", ":", "1", "]", "/", "v", "1">>,
      [path |-> <<"/", "v", "1">>, err |-> FALSE]>>,
    <<<<":", "/", "/", "a", "p", "i", ".", "e", "x", "a", "m", "p", "l", "e", ".", "c", "o", "m", "/", "p">>,
      [path |-> <<>>, err |-> TRUE]>>,
    <<<<"h", "t", "t", "p", "s", ":", "/", "/", "a", "p", "i", ".", "e", "x", "a", "m", "p", "l", "e", ".", "c", "o", "m", "/", "v", "1", "#">> \o <<ByteChars[2]>>,
      [path |-> <<"/", "v", "1">>, err |-> FALSE]>>
>>

\* C25 as stated: the path of the first expanded URL whose scheme and host
\* are those of the base, and the path of the base whenever there is none
C25_FirstMatchElseBasePath ==
    BasePathDone =>
        LET matching == {i \in 1..Len(Servers) :
                            \E c \in Candidates(Servers[i]) : Matches(c)}
        IN  IF matching = {} THEN ret[1] = [path |-> Location.Path, err |-> FALSE]
            ELSE LET tried == Tried(Servers[FirstOf(matching)])
                     hit == FirstOf({k \in 1..Len(tried) : Matches(tried[k])})
                 IN  ret[1] = [path |-> TrimSuffixSlash(URLParse(tried[hit]).Path),
                               err |-> FALSE]

\* C25: the first server, in declared order, that has a URL starting with a
\* slash or a candidate starting with scheme://host of the base decides: the
\* former gives its URL as it is; the latter gives the path, without a
\* trailing slash, of its first such candidate, or an error when that
\* candidate does not parse.  The candidates of a server are the
\* cross-product of the values of its variables, the default where there is
\* no enumeration.  Without such a server the path of the base is returned
C25_FirstDecidingServer ==
    BasePathDone =>
        LET deciding == {i \in 1..Len(Servers) :
                            \/ Relative(Servers[i])
                            \/ \E c \in Candidates(Servers[i]) : StartsWithBase(c)}
        IN  IF deciding = {} THEN ret[1] = [path |-> Location.Path, err |-> FALSE]
            ELSE LET srv == Servers[FirstOf(deciding)]
                     tried == Tried(srv)
                     hit == FirstOf({k \in 1..Len(tried) : StartsWithBase(tried[k])})
                 IN  /\ Relative(srv) => ret[1] = [path |-> srv.URL, err |-> FALSE]
                     /\ ~Relative(srv) =>
                           /\ Range(tried) = Candidates(srv)
                           /\ ret[1].err = URLParse(tried[hit]).err
                           /\ ~ret[1].err =>
                                 ret[1].path = TrimSuffixSlash(URLParse(tried[hit]).Path)
                           /\ \A d \in 1..Len(Decided) :
                                 tried[hit] = Decided[d][1] => ret[1] = Decided[d][2]

\* a server of another host, then one whose variables give four
\* candidates: the first that starts with the base gives /v1/x
C25_Witness ==
    /\ BasePathDone
    /\ Location.Host = <<"a", "p", "i", ".", "e", "x", "a", "m", "p", "l", "e", ".", "c", "o", "m">> /\ Location.Scheme = <<"h", "t", "t", "p", "s">>
    /\ Len(Servers) = 2
    /\ Servers[1].URL = <<"h", "t", "t", "p", "s", ":", "/", "/", "o", "t", "h", "e", "r", ".", "e", "x", "a", "m", "p", "l", "e", ".", "c", "o", "m", "/", "o">>
    /\ Servers[2].URL = <<"h", "t", "t", "p", "s", ":", "/", "/", "{", "e", "n", "v", "}", ".", "e", "x", "a", "m", "p", "l", "e", ".", "c", "o", "m", "/", "{", "v", "e", "r", "}", "/", "x">>
    /\ Tried(Servers[2]) = <<<<"h", "t", "t", "p", "s", ":", "/", "/", "s", "t", "a", "g", "i", "n", "g", ".", "e", "x", "a", "m", "p", "l", "e", ".", "c", "o", "m", "/", "v", "1", "/", "x">>,
                             <<"h", "t", "t", "p", "s", ":", "/", "/", "a", "p", "i", ".", "e", "x", "a", "m", "p", "l", "e", ".", "c", "o", "m", "/", "v", "1", "/", "x">>,
                             <<"h", "t", "t", "p", "s", ":", "/", "/", "s", "t", "a", "g", "i", "n", "g", ".", "e", "x", "a", "m", "p", "l", "e", ".", "c", "o", "m", "/", "v", "3", "/", "x">>,
                             <<"h", "t", "t", "p", "s", ":", "/", "/", "a", "p", "i", ".", "e", "x", "a", "m", "p", "l", "e", ".", "c", "o", "m", "/", "v", "3", "/", "x">>>>
    /\ ret[1] = [path |-> <<"/", "v", "1", "/", "x">>, err |-> FALSE]

(***************************************************************************)
(* deepMergeAPIConfig: the TLS flag, and merging a source twice            *)
(***************************************************************************)
\* C27: after a layer with a TLS block is merged into an entry that has TLS
\* settings, the insecure-skip-verify flag is the flag of that layer
C27_LaterInsecureFlagWins ==
    (mcount = 1 /\ mdest.TLS # Nil /\ msrc.TLS # Nil) =>
        mres.TLS[1].InsecureSkipVerify = msrc.TLS[1].InsecureSkipVerify

\* C28: merging the same source into a destination twice in a row gives
\* what merging it once gives, in every field
C28_MergeIdempotent ==
    mcount >= 1 => mres = deepMergeAPIConfig(mdest, msrc)

\* a source with spec files, profiles and TLS merged twice into a
\* destination that differs from it in each of them
C28_Witness ==
    /\ mcount = 2
    /\ mdest.Base = BaseA /\ msrc.Base = BaseAB
    /\ mdest.SpecFiles = <<SpecX>> /\ msrc.SpecFiles = <<SpecX, SpecY>>
    /\ mdest.Profiles # Nil /\ msrc.Profiles # Nil
    /\ DOMAIN mdest.Profiles[1] = {"default"} /\ DOMAIN msrc.Profiles[1] = {"default", "prod"}
    /\ mdest.TLS # Nil /\ msrc.TLS # Nil /\ mdest.TLS # msrc.TLS
    /\ mres.Base = BaseAB
    /\ mres.SpecFiles = <<SpecX, SpecY>>
    /\ mres.Profiles[1]["default"][1].Headers = [h \in {"a", "b"} |-> "2"]
    /\ mres # mdest /\ mres # msrc

(***************************************************************************)
(* initAPIConfig: the registry entry of an API several local files define  *)
(***************************************************************************)
\* the deep merge of what the first i files read hold for API k, root first
RECURSIVE MergedUpTo(_, _)
MergedUpTo(k, i) ==
    IF i = 0 THEN Nil
    ELSE LET prev == MergedUpTo(k, i - 1)
         IN  IF ~Declares(i, k) THEN prev
             ELSE LET layer == LocalConfigOf(PathRead(i), k, EntryRead(i, k))
                  IN  IF prev = Nil THEN Ptr(layer)
                      ELSE Ptr(deepMergeAPIConfig(prev[1], layer))
DefinedIn(k) == {i \in 1..Len(loaded) : Declares(i, k)}

\* C26: when startup is complete, the registry entry of an API that two or
\* more local files define is the deep merge of those files in root-to-leaf
\* order
C26_RegistryHoldsMergedLayers ==
    pc = "done" =>
        \A k \in DOMAIN configs :
            Cardinality(DefinedIn(k)) >= 2
                => configs[k] = MergedUpTo(k, Len(loaded))[1]

====
